---------------------------- MODULE Spec2Model ----------------------------
(***************************************************************************)
(* A model of the google-translation client library (src/src/lib.rs):      *)
(* the call dispatcher (post_request, get_request, delete_request), the    *)
(* serde decoding of the response bodies, the one-shot operation calls and *)
(* the long-running-operation poller Operation::wait_util_done.            *)
(*                                                                         *)
(* A call chain is one logical task that runs one activity at a time: a    *)
(* one-shot call or a poll.  The remote service and the transport are the  *)
(* environment: every reply is drawn from a bounded set of HTTP results.   *)
(***************************************************************************)
EXTENDS Integers, Sequences, FiniteSets, TLC

VARIABLES
    pc,         \* chain -> "idle" | "waiting" | "calling" | "done"
    fn,         \* chain -> the library function the chain is running
    handle,     \* chain -> the Operation a poll was started on (self)
    arg,        \* chain -> [name, token]: the name and access_token in use
    req,        \* chain -> the HTTP request issued last
    calls,      \* chain -> HTTP requests issued by the activity (saturating)
    notDone,    \* chain -> not-done wait replies of the poll (saturating)
    last,       \* chain -> the HTTP result received last
    result,     \* chain -> the dispatcher's result for the request issued last
    outcome,    \* chain -> what the poll's future resolved to
    prior,      \* chain -> the calls and not-done replies of the poll that
                \* a transport failure ended before the poll now running
    codec       \* a value of a Serialize + Deserialize type on its way
                \* through serde_json::to_string and serde_json::from_str

vars ==
    <<pc, fn, handle, arg, req, calls, notDone, last, result, outcome, prior,
      codec>>
chain_vars ==
    <<pc, fn, handle, arg, req, calls, notDone, last, result, outcome, prior>>

(***************************************************************************)
(* Bounds of the model.                                                    *)
(***************************************************************************)
\* The counters calls and notDone stop counting at MaxCalls; the loop of
\* the poller itself goes on (it has no iteration limit).
MaxCalls == 4

Chains == {1, 2}

(***************************************************************************)
(* Option<T>: None is the empty sequence, Some(v) the one-element one.     *)
(***************************************************************************)
None == <<>>
Some(v) == <<v>>
IsSome(o) == Len(o) = 1
Unwrap(o) == o[1]

(***************************************************************************)
(* serde_json::Value.  A JSON document is a record of one shape: its type  *)
(* t, a string s (strings, booleans), a number n, and the members f of an  *)
(* object (by key) or of an array (by index "0", "1", ...).                *)
(***************************************************************************)
NoFields == [k \in {} |-> 0]
JVal(t, s, n, f) == [t |-> t, s |-> s, n |-> n, f |-> f]
JNull == JVal("null", "", 0, NoFields)
JBool(b) == JVal("bool", IF b THEN "true" ELSE "false", 0, NoFields)
JStr(s) == JVal("str", s, 0, NoFields)
JNum(n) == JVal("num", "", n, NoFields)
JObj(f) == JVal("obj", "", 0, f)
JArr(f) == JVal("arr", "", 0, f)
ArrKeys == <<"0", "1">>

\* A map lookup: the member k of the object v, if present.
Field(v, k) == IF k \in DOMAIN v.f THEN Some(v.f[k]) ELSE None

(***************************************************************************)
(* Response bodies.  A body is a byte string: either bytes that are no     *)
(* JSON document (ok = FALSE: the empty body, an HTML page) or the text of *)
(* the JSON document v.                                                    *)
(***************************************************************************)
NotJson(raw) == [ok |-> FALSE, raw |-> raw, v |-> JNull]
JsonText(v) == [ok |-> TRUE, raw |-> "json", v |-> v]

(***************************************************************************)
(* Results of a decoder: DeErr is serde_json::Error, DeOk(x) the value.    *)
(***************************************************************************)
DeErr == [ok |-> FALSE]
DeOk(x) == [ok |-> TRUE, val |-> x]

\* String: a JSON string only; a missing field is an error.
de_String(fo) ==
    IF IsSome(fo) /\ Unwrap(fo).t = "str" THEN DeOk(Unwrap(fo).s) ELSE DeErr

\* i32: a JSON integer only (the integers of the model are all within the
\* range of i32); a missing field is an error.
de_i32(fo) ==
    IF IsSome(fo) /\ Unwrap(fo).t = "num" THEN DeOk(Unwrap(fo).n) ELSE DeErr

\* serde_json::Value as a field: any JSON document; a missing field is an
\* error (only Option fields default to None).
de_Value(fo) == IF IsSome(fo) THEN DeOk(Unwrap(fo)) ELSE DeErr

\* Option<bool>: missing or null is None, a boolean is Some.
de_Option_bool(fo) ==
    IF ~IsSome(fo) \/ Unwrap(fo).t = "null" THEN DeOk(None)
    ELSE IF Unwrap(fo).t = "bool" THEN DeOk(Some(Unwrap(fo).s = "true"))
    ELSE DeErr

\* Option<serde_json::Value>: missing or null is None, all else is Some.
de_Option_Value(fo) ==
    IF ~IsSome(fo) \/ Unwrap(fo).t = "null" THEN DeOk(None)
    ELSE DeOk(Some(Unwrap(fo)))

\* Option<Vec<serde_json::Value>>: missing or null is None, an array is Some.
de_Option_Vec(fo) ==
    IF ~IsSome(fo) \/ Unwrap(fo).t = "null" THEN DeOk(None)
    ELSE IF Unwrap(fo).t = "arr"
         THEN DeOk(Some([i \in 1..Cardinality(DOMAIN Unwrap(fo).f) |->
                            Unwrap(fo).f[ArrKeys[i]]]))
    ELSE DeErr

\* #[derive(Deserialize)] struct Status { code, message, details }.
\* (The inputs carry structs as JSON objects, never as arrays.)
Status(code, message, details) ==
    [code |-> code, message |-> message, details |-> details]

de_Status(v) ==
    IF v.t # "obj" THEN DeErr
    ELSE LET c == de_i32(Field(v, "code"))
             m == de_String(Field(v, "message"))
             d == de_Option_Vec(Field(v, "details"))
         IN  IF c.ok /\ m.ok /\ d.ok
             THEN DeOk(Status(c.val, m.val, d.val)) ELSE DeErr

\* Option<Status>: missing or null is None, all else must decode as Status.
de_Option_Status(fo) ==
    IF ~IsSome(fo) \/ Unwrap(fo).t = "null" THEN DeOk(None)
    ELSE LET s == de_Status(Unwrap(fo))
         IN  IF s.ok THEN DeOk(Some(s.val)) ELSE DeErr

\* #[derive(Deserialize)] struct Operation { name, metadata, done, error,
\* response }; unknown members are ignored.
Operation(name, metadata, done, error, response) ==
    [name |-> name, metadata |-> metadata, done |-> done,
     error |-> error, response |-> response]

de_Operation(v) ==
    IF v.t # "obj" THEN DeErr
    ELSE LET n == de_String(Field(v, "name"))
             m == de_Value(Field(v, "metadata"))
             d == de_Option_bool(Field(v, "done"))
             e == de_Option_Status(Field(v, "error"))
             r == de_Option_Value(Field(v, "response"))
         IN  IF n.ok /\ m.ok /\ d.ok /\ e.ok /\ r.ok
             THEN DeOk(Operation(n.val, m.val, d.val, e.val, r.val))
             ELSE DeErr

\* Option<String>: missing or null is None, a string is Some.
de_Option_String(fo) ==
    IF ~IsSome(fo) \/ Unwrap(fo).t = "null" THEN DeOk(None)
    ELSE IF Unwrap(fo).t = "str" THEN DeOk(Some(Unwrap(fo).s))
    ELSE DeErr

\* A sequence decodes when each of its elements does.
DeAll(ds) ==
    IF \A i \in DOMAIN ds : ds[i].ok
    THEN DeOk([i \in DOMAIN ds |-> ds[i].val]) ELSE DeErr

\* Vec<Operation>: an array whose elements all decode as Operation; a
\* missing field is an error.
de_Vec_Operation(fo) ==
    IF ~IsSome(fo) \/ Unwrap(fo).t # "arr" THEN DeErr
    ELSE DeAll([i \in 1..Cardinality(DOMAIN Unwrap(fo).f) |->
                  de_Operation(Unwrap(fo).f[ArrKeys[i]])])

\* #[derive(Deserialize)] struct ListOperationsResponse { operations,
\* next_page_token }.
ListOperationsResponse(operations, next_page_token) ==
    [operations |-> operations, next_page_token |-> next_page_token]

de_ListOperationsResponse(v) ==
    IF v.t # "obj" THEN DeErr
    ELSE LET o == de_Vec_Operation(Field(v, "operations"))
             t == de_Option_String(Field(v, "nextPageToken"))
         IN  IF o.ok /\ t.ok
             THEN DeOk(ListOperationsResponse(o.val, t.val)) ELSE DeErr

(***************************************************************************)
(* The types that derive Serialize and Deserialize, all with               *)
(* rename_all = "camelCase" and no other serde attribute.  ser_T is what   *)
(* the derived Serialize writes (every field, a None as null), de_T what   *)
(* the derived Deserialize reads.                                          *)
(***************************************************************************)
\* Option<usize>: missing or null is None, a non-negative integer is Some.
de_Option_usize(fo) ==
    IF ~IsSome(fo) \/ Unwrap(fo).t = "null" THEN DeOk(None)
    ELSE IF Unwrap(fo).t = "num" /\ Unwrap(fo).n >= 0
         THEN DeOk(Some(Unwrap(fo).n))
    ELSE DeErr

\* Vec<String>: an array of strings; a missing field is an error.
de_Vec_String(fo) ==
    IF ~IsSome(fo) \/ Unwrap(fo).t # "arr" THEN DeErr
    ELSE LET a == Unwrap(fo).f
             n == Cardinality(DOMAIN a)
         IN  IF \A i \in 1..n : a[ArrKeys[i]].t = "str"
             THEN DeOk([i \in 1..n |-> a[ArrKeys[i]].s])
             ELSE DeErr

ser_Option_String(o) == IF IsSome(o) THEN JStr(Unwrap(o)) ELSE JNull
ser_Option_usize(o) == IF IsSome(o) THEN JNum(Unwrap(o)) ELSE JNull
ser_Option_bool(o) == IF IsSome(o) THEN JBool(Unwrap(o)) ELSE JNull
ser_Vec_String(vec) ==
    JArr([k \in {ArrKeys[i] : i \in 1..Len(vec)} |->
            JStr(vec[CHOOSE i \in 1..Len(vec) : ArrKeys[i] = k])])

\* struct GcsSource { input_uri }.
GcsSource(input_uri) == [input_uri |-> input_uri]
ser_GcsSource(x) == JObj([k \in {"inputUri"} |-> JStr(x.input_uri)])
de_GcsSource(v) ==
    IF v.t # "obj" THEN DeErr
    ELSE LET u == de_String(Field(v, "inputUri"))
         IN  IF u.ok THEN DeOk(GcsSource(u.val)) ELSE DeErr

\* struct GlossaryInputConfig { gcs_source }.
GlossaryInputConfig(gcs_source) == [gcs_source |-> gcs_source]
ser_GlossaryInputConfig(x) ==
    JObj([k \in {"gcsSource"} |-> ser_GcsSource(x.gcs_source)])
de_GlossaryInputConfig(v) ==
    IF v.t # "obj" \/ ~IsSome(Field(v, "gcsSource")) THEN DeErr
    ELSE LET g == de_GcsSource(v.f["gcsSource"])
         IN  IF g.ok THEN DeOk(GlossaryInputConfig(g.val)) ELSE DeErr

\* struct LanguageCodePair { source_language_code, target_language_code }.
LanguageCodePair(source_language_code, target_language_code) ==
    [source_language_code |-> source_language_code,
     target_language_code |-> target_language_code]
ser_LanguageCodePair(x) ==
    JObj([k \in {"sourceLanguageCode", "targetLanguageCode"} |->
            IF k = "sourceLanguageCode" THEN JStr(x.source_language_code)
            ELSE JStr(x.target_language_code)])
de_LanguageCodePair(v) ==
    IF v.t # "obj" THEN DeErr
    ELSE LET a == de_String(Field(v, "sourceLanguageCode"))
             b == de_String(Field(v, "targetLanguageCode"))
         IN  IF a.ok /\ b.ok THEN DeOk(LanguageCodePair(a.val, b.val))
             ELSE DeErr

\* struct LanguageCodesSet { language_codes }.
LanguageCodesSet(language_codes) == [language_codes |-> language_codes]
ser_LanguageCodesSet(x) ==
    JObj([k \in {"languageCodes"} |-> ser_Vec_String(x.language_codes)])
de_LanguageCodesSet(v) ==
    IF v.t # "obj" THEN DeErr
    ELSE LET l == de_Vec_String(Field(v, "languageCodes"))
         IN  IF l.ok THEN DeOk(LanguageCodesSet(l.val)) ELSE DeErr

\* Option<LanguageCodePair>, Option<LanguageCodesSet>.
de_Option_LanguageCodePair(fo) ==
    IF ~IsSome(fo) \/ Unwrap(fo).t = "null" THEN DeOk(None)
    ELSE LET x == de_LanguageCodePair(Unwrap(fo))
         IN  IF x.ok THEN DeOk(Some(x.val)) ELSE DeErr
de_Option_LanguageCodesSet(fo) ==
    IF ~IsSome(fo) \/ Unwrap(fo).t = "null" THEN DeOk(None)
    ELSE LET x == de_LanguageCodesSet(Unwrap(fo))
         IN  IF x.ok THEN DeOk(Some(x.val)) ELSE DeErr

\* struct Glossary { name, input_config, entry_count, submit_time,
\* end_time, language_pair, language_codes_set }.
Glossary(name, input_config, entry_count, submit_time, end_time, language_pair, language_codes_set) ==
    [name |-> name, input_config |-> input_config,
     entry_count |-> entry_count, submit_time |-> submit_time,
     end_time |-> end_time, language_pair |-> language_pair,
     language_codes_set |-> language_codes_set]

\* Glossary::new
Glossary_new(name, input_config, language_pair) ==
    Glossary(name, input_config, None, None, None, Some(language_pair), None)

ser_Glossary(x) ==
    JObj([k \in {"name", "inputConfig", "entryCount", "submitTime",
                 "endTime", "languagePair", "languageCodesSet"} |->
            CASE k = "name" -> JStr(x.name)
              [] k = "inputConfig" -> ser_GlossaryInputConfig(x.input_config)
              [] k = "entryCount" -> ser_Option_usize(x.entry_count)
              [] k = "submitTime" -> ser_Option_String(x.submit_time)
              [] k = "endTime" -> ser_Option_String(x.end_time)
              [] k = "languagePair" ->
                    IF IsSome(x.language_pair)
                    THEN ser_LanguageCodePair(Unwrap(x.language_pair))
                    ELSE JNull
              [] k = "languageCodesSet" ->
                    IF IsSome(x.language_codes_set)
                    THEN ser_LanguageCodesSet(Unwrap(x.language_codes_set))
                    ELSE JNull])

de_Glossary(v) ==
    IF v.t # "obj" \/ ~IsSome(Field(v, "inputConfig")) THEN DeErr
    ELSE LET n == de_String(Field(v, "name"))
             i == de_GlossaryInputConfig(v.f["inputConfig"])
             c == de_Option_usize(Field(v, "entryCount"))
             s == de_Option_String(Field(v, "submitTime"))
             e == de_Option_String(Field(v, "endTime"))
             p == de_Option_LanguageCodePair(Field(v, "languagePair"))
             l == de_Option_LanguageCodesSet(Field(v, "languageCodesSet"))
         IN  IF n.ok /\ i.ok /\ c.ok /\ s.ok /\ e.ok /\ p.ok /\ l.ok
             THEN DeOk(Glossary(n.val, i.val, c.val, s.val, e.val, p.val,
                                l.val))
             ELSE DeErr

\* struct TranslateTextGlossaryConfig { glossary, ignore_case }.
TranslateTextGlossaryConfig(glossary, ignore_case) ==
    [glossary |-> glossary, ignore_case |-> ignore_case]
ser_TranslateTextGlossaryConfig(x) ==
    JObj([k \in {"glossary", "ignoreCase"} |->
            IF k = "glossary" THEN JStr(x.glossary)
            ELSE ser_Option_bool(x.ignore_case)])
de_TranslateTextGlossaryConfig(v) ==
    IF v.t # "obj" THEN DeErr
    ELSE LET g == de_String(Field(v, "glossary"))
             i == de_Option_bool(Field(v, "ignoreCase"))
         IN  IF g.ok /\ i.ok
             THEN DeOk(TranslateTextGlossaryConfig(g.val, i.val)) ELSE DeErr

\* serde_json::to_string (RequestOrEmpty::to_json) and serde_json::from_str
\* at the type ty.
to_json(ty, x) ==
    CASE ty = "Glossary" -> ser_Glossary(x)
      [] ty = "GlossaryInputConfig" -> ser_GlossaryInputConfig(x)
      [] ty = "GcsSource" -> ser_GcsSource(x)
      [] ty = "LanguageCodePair" -> ser_LanguageCodePair(x)
      [] ty = "LanguageCodesSet" -> ser_LanguageCodesSet(x)
      [] ty = "TranslateTextGlossaryConfig" ->
            ser_TranslateTextGlossaryConfig(x)

from_str(ty, body) ==
    IF ~body.ok THEN DeErr
    ELSE CASE ty = "Glossary" -> de_Glossary(body.v)
           [] ty = "GlossaryInputConfig" -> de_GlossaryInputConfig(body.v)
           [] ty = "GcsSource" -> de_GcsSource(body.v)
           [] ty = "LanguageCodePair" -> de_LanguageCodePair(body.v)
           [] ty = "LanguageCodesSet" -> de_LanguageCodesSet(body.v)
           [] ty = "TranslateTextGlossaryConfig" ->
                 de_TranslateTextGlossaryConfig(body.v)

(***************************************************************************)
(* mod code: the HTTP status codes the library names.                      *)
(***************************************************************************)
OK == 200
NOT_FOUND == 404
UNAVAILABLE == 503

(***************************************************************************)
(* What the transport hands back for one request: a hyper error, or a      *)
(* response with a status and a body read in full.                         *)
(***************************************************************************)
HttpError == [kind |-> "error", status |-> 0, body |-> NotJson("")]
HttpResponse(status, body) ==
    [kind |-> "response", status |-> status, body |-> body]
NoHttp == [kind |-> "none", status |-> 0, body |-> NotJson("")]

(***************************************************************************)
(* Result<OB, Error> of a dispatcher call.  ty is the response type OB     *)
(* ("Operation", "ListOperationsResponse", "Unit" for (), "Empty"); op     *)
(* holds the decoded value.                                                *)
(***************************************************************************)
NoOperation == Operation("", JNull, None, None, None)
Res(kind, ty, op, code, body) ==
    [kind |-> kind, ty |-> ty, op |-> op, code |-> code, body |-> body]
NoRes == Res("None", "", None, 0, JNull)
HyperError == Res("HyperError", "", None, 0, JNull)
SerdeJsonError == Res("SerdeJsonError", "", None, 0, JNull)
ResponseError(code, body) == Res("ResponseError", "", None, code, body)
OkRes(ty, op) == Res("Ok", ty, op, 0, JNull)

\* serde_json::from_slice::<serde_json::Value>
from_slice_Value(body) == IF body.ok THEN DeOk(body.v) ELSE DeErr

\* The decoded value, held in the op of the result.
DeSome(d) == IF d.ok THEN DeOk(Some(d.val)) ELSE DeErr

\* impl<T: DeserializeOwned> ResponseOrEmpty for T: serde_json::from_slice
\* as Operation, as ListOperationsResponse, or as () (which only the
\* document null decodes to).
from_slice_T(ty, body) ==
    IF ~body.ok THEN DeErr
    ELSE IF ty = "Operation"
         THEN LET o == de_Operation(body.v)
              IN  IF o.ok THEN DeOk(Some(o.val)) ELSE DeErr
    ELSE IF ty = "ListOperationsResponse"
         THEN DeSome(de_ListOperationsResponse(body.v))
    ELSE IF body.v.t = "null" THEN DeOk(None) ELSE DeErr

\* impl ResponseOrEmpty for Empty: the body is not looked at.
from_slice_Empty(body) == DeOk(None)

from_slice(ty, body) ==
    IF ty = "Empty" THEN from_slice_Empty(body) ELSE from_slice_T(ty, body)

\* post_request_result that takes every 2xx status for a success.
post_request_result_any_2xx(ty, http) ==
    IF http.kind = "error" THEN HyperError
    ELSE IF http.status >= 200 /\ http.status < 300
         THEN LET d == from_slice(ty, http.body)
              IN  IF d.ok THEN OkRes(ty, d.val) ELSE SerdeJsonError
    ELSE LET b == from_slice_Value(http.body)
         IN  IF b.ok THEN ResponseError(http.status, b.val)
             ELSE SerdeJsonError

\* The classification of the response, as written in post_request.
post_request_result(ty, http) ==
    IF http.kind = "error" THEN HyperError
    ELSE IF http.status = OK
         THEN LET d == from_slice(ty, http.body)
              IN  IF d.ok THEN OkRes(ty, d.val) ELSE SerdeJsonError
    ELSE LET b == from_slice_Value(http.body)
         IN  IF b.ok THEN ResponseError(http.status, b.val)
             ELSE SerdeJsonError

\* get_request_result that reads a body it cannot decode as an error body.
get_request_result_falls_through(ty, http) ==
    IF http.kind = "error" THEN HyperError
    ELSE LET d == from_slice(ty, http.body)
             b == from_slice_Value(http.body)
         IN  IF http.status = OK /\ d.ok THEN OkRes(ty, d.val)
             ELSE IF b.ok THEN ResponseError(http.status, b.val)
             ELSE SerdeJsonError

\* get_request_result that takes every 2xx status for a success.
get_request_result_any_2xx(ty, http) ==
    IF http.kind = "error" THEN HyperError
    ELSE IF http.status >= 200 /\ http.status < 300
         THEN LET d == from_slice(ty, http.body)
              IN  IF d.ok THEN OkRes(ty, d.val) ELSE SerdeJsonError
    ELSE LET b == from_slice_Value(http.body)
         IN  IF b.ok THEN ResponseError(http.status, b.val)
             ELSE SerdeJsonError

\* The same, as written in get_request.
get_request_result(ty, http) ==
    IF http.kind = "error" THEN HyperError
    ELSE IF http.status = OK
         THEN LET d == from_slice(ty, http.body)
              IN  IF d.ok THEN OkRes(ty, d.val) ELSE SerdeJsonError
    ELSE LET b == from_slice_Value(http.body)
         IN  IF b.ok THEN ResponseError(http.status, b.val)
             ELSE SerdeJsonError

\* delete_request_result that makes up a remote error when the error body
\* does not decode.
delete_request_result_fabricates(ty, http) ==
    IF http.kind = "error" THEN HyperError
    ELSE IF http.status = OK
         THEN LET d == from_slice(ty, http.body)
              IN  IF d.ok THEN OkRes(ty, d.val) ELSE SerdeJsonError
    ELSE LET b == from_slice_Value(http.body)
         IN  IF b.ok THEN ResponseError(http.status, b.val)
             ELSE ResponseError(http.status, JNull)

\* delete_request_result that looks at the status only when there is a
\* body to decode.
delete_request_result_empty_ok(ty, http) ==
    IF http.kind = "error" THEN HyperError
    ELSE IF ty = "Empty" THEN OkRes(ty, None)
    ELSE IF http.status = OK
         THEN LET d == from_slice(ty, http.body)
              IN  IF d.ok THEN OkRes(ty, d.val) ELSE SerdeJsonError
    ELSE LET b == from_slice_Value(http.body)
         IN  IF b.ok THEN ResponseError(http.status, b.val)
             ELSE SerdeJsonError

\* The same, as written in delete_request.
delete_request_result(ty, http) ==
    IF http.kind = "error" THEN HyperError
    ELSE IF http.status = OK
         THEN LET d == from_slice(ty, http.body)
              IN  IF d.ok THEN OkRes(ty, d.val) ELSE SerdeJsonError
    ELSE LET b == from_slice_Value(http.body)
         IN  IF b.ok THEN ResponseError(http.status, b.val)
             ELSE SerdeJsonError

(***************************************************************************)
(* The request each dispatcher builds.  A string the code works on         *)
(* character by character (the token) is a sequence of characters; a url   *)
(* is the sequence of the pieces format! joins.                            *)
(***************************************************************************)
IsWhitespace(ch) == ch \in {" ", "\t", "\n", "\r"}

\* str::trim
trim(s) ==
    LET keep == {i \in 1..Len(s) : ~IsWhitespace(s[i])}
    IN  IF keep = {} THEN <<>>
        ELSE SubSeq(s, CHOOSE i \in keep : \A j \in keep : i <= j,
                       CHOOSE i \in keep : \A j \in keep : i >= j)

Bearer(access_token) == <<"Bearer ">> \o trim(access_token)

HttpRequest(method, uri, content_type, authorization, body) ==
    [method |-> method, uri |-> uri, content_type |-> content_type,
     authorization |-> authorization, body |-> body]
NoRequest == HttpRequest("", <<>>, None, <<>>, None)

\* A request body or Empty (trait RequestOrEmpty): json is the document
\* to_json writes.
EmptyBody == [is_empty |-> TRUE, json |-> JNull]
JsonBody(v) == [is_empty |-> FALSE, json |-> v]

post_request_req(url, access_token, request_body) ==
    HttpRequest("POST", url, Some("application/json"), Bearer(access_token),
                IF request_body.is_empty THEN None
                ELSE Some(request_body.json))

\* get_request with IB = Empty: the url is used as it is.
get_request_req(url, access_token) ==
    HttpRequest("GET", url, Some("application/json"), Bearer(access_token),
                None)

\* #[derive(Serialize)] struct ListOperationsQueryParams; the strings are
\* sequences of characters.
ListOperationsQueryParams(filter, page_size, page_token) ==
    [filter |-> filter, page_size |-> page_size, page_token |-> page_token]

\* The decimal digits of a usize.
RECURSIVE itoa(_)
itoa(n) ==
    LET digit == <<"0", "1", "2", "3", "4", "5", "6", "7", "8", "9">>
    IN  IF n < 10 THEN <<digit[n + 1]>>
        ELSE itoa(n \div 10) \o <<digit[(n % 10) + 1]>>

\* application/x-www-form-urlencoded of one character: a space is "+",
\* letters, digits and "*-._" stand for themselves, any other byte is
\* percent-encoded (the other characters of the model are "=" and "/").
urlencode_byte(ch) ==
    CASE ch = " " -> "+"
      [] ch = "=" -> "%3D"
      [] ch = "/" -> "%2F"
      [] OTHER -> ch
urlencode(str) == [i \in 1..Len(str) |-> urlencode_byte(str[i])]

RECURSIVE join(_)
join(pairs) ==
    IF Len(pairs) = 0 THEN <<>>
    ELSE IF Len(pairs) = 1 THEN pairs[1]
    ELSE pairs[1] \o <<"&">> \o join(Tail(pairs))

\* to_params: serde_urlencoded::to_string writes key=value for the fields
\* that are Some, in the order of the struct, joined by "&".
to_params(params) ==
    LET filter == IF IsSome(params.filter)
                  THEN << <<"filter=">> \o urlencode(Unwrap(params.filter)) >>
                  ELSE <<>>
        page_size == IF IsSome(params.page_size)
                     THEN << <<"pageSize=">>
                             \o itoa(Unwrap(params.page_size)) >>
                     ELSE <<>>
        page_token == IF IsSome(params.page_token)
                      THEN << <<"pageToken=">>
                              \o urlencode(Unwrap(params.page_token)) >>
                      ELSE <<>>
    IN  join(filter \o page_size \o page_token)

\* get_request with IB: Serialize: the url is followed by "?" and the
\* parameters.
get_request_params_req(url, access_token, params) ==
    HttpRequest("GET", url \o <<"?">> \o to_params(params),
                Some("application/json"), Bearer(access_token), None)

\* delete_request sets the Authorization header only.
delete_request_req(url, access_token) ==
    HttpRequest("DELETE", url, None, Bearer(access_token), None)

BaseUrl == "https://translation.googleapis.com/v3beta1/"

\* to_json of WaitOperationRequestBody { timeout }.
ser_WaitOperationRequestBody(timeout) ==
    JObj([k \in {"timeout"} |->
            IF IsSome(timeout) THEN JStr(Unwrap(timeout)) ELSE JNull])

\* fn wait_operation: the request and the response type.
wait_operation_req(name, access_token, timeout) ==
    post_request_req(<<BaseUrl, name, ":wait">>, access_token,
                     JsonBody(ser_WaitOperationRequestBody(timeout)))
wait_operation_result(http) == post_request_result("Operation", http)

\* fn cancel_operation: post_request(&url, access_token, &()) with OB = ();
\* to_json of () writes null.
cancel_operation_req(name, access_token) ==
    post_request_req(<<BaseUrl, name, ":cancel">>, access_token,
                     JsonBody(JNull))
cancel_operation_result(http) == post_request_result("Unit", http)

\* fn delete_operation: delete_request::<Empty>(&url, access_token)
\* followed by .map(|_| ()).
delete_operation_req(name, access_token) ==
    delete_request_req(<<BaseUrl, name, ":cancel">>, access_token)
delete_operation_result(http) ==
    LET r == delete_request_result("Empty", http)
    IN  IF r.kind = "Ok" THEN OkRes("Unit", None) ELSE r

\* fn get_opertion: get_request(&url, access_token, &Empty) -> Operation.
get_opertion_req(name, access_token) ==
    get_request_req(<<BaseUrl, name>>, access_token)
get_opertion_result(http) == get_request_result("Operation", http)

\* fn list_operations: get_request(&url, access_token, params)
\* -> ListOperationsResponse.
list_operations_req(project_id, location_id, access_token, params) ==
    get_request_params_req(<<BaseUrl, "projects/", project_id, "/locations/",
                             location_id, "/operations">>,
                           access_token, params)
list_operations_result(http) ==
    get_request_result("ListOperationsResponse", http)

\* delete_glossary_result that reports the remote error without its status.
delete_glossary_result_drops_code(http) ==
    LET r == delete_request_result("Operation", http)
    IN  IF r.kind = "ResponseError" THEN ResponseError(0, r.body) ELSE r

\* fn delete_glossary: delete_request(&url, access_token) -> Operation.
delete_glossary_req(name, access_token) ==
    delete_request_req(<<BaseUrl, name>>, access_token)
delete_glossary_result(http) == delete_request_result("Operation", http)

\* fn get_glossary: get_request(&url, access_token, &Empty) -> Operation.
get_glossary_req(name, access_token) ==
    get_request_req(<<BaseUrl, name>>, access_token)
get_glossary_result(http) == get_request_result("Operation", http)

\* tests::test_glossaries: what the chain does with the result r of
\* delete_glossary: poll the returned Operation, go on to create_glossary
\* when there was nothing to delete, or panic.
test_glossaries_then(r) ==
    IF r.kind = "Ok" THEN "wait_util_done"
    ELSE IF r.kind = "ResponseError" /\ r.code = NOT_FOUND
         THEN "create_glossary"
    ELSE "panic"

\* The one-shot calls that take a resource name.
OneShot ==
    {"cancel_operation", "delete_operation", "get_opertion",
     "delete_glossary", "get_glossary"}

OneShotReq(f, name, access_token) ==
    CASE f = "cancel_operation" -> cancel_operation_req(name, access_token)
      [] f = "delete_operation" -> delete_operation_req(name, access_token)
      [] f = "get_opertion" -> get_opertion_req(name, access_token)
      [] f = "delete_glossary" -> delete_glossary_req(name, access_token)
      [] f = "get_glossary" -> get_glossary_req(name, access_token)

OneShotResult(f, http) ==
    CASE f = "cancel_operation" -> cancel_operation_result(http)
      [] f = "delete_operation" -> delete_operation_result(http)
      [] f = "get_opertion" -> get_opertion_result(http)
      [] f = "delete_glossary" -> delete_glossary_result(http)
      [] f = "get_glossary" -> get_glossary_result(http)
      [] f = "list_operations" -> list_operations_result(http)

(***************************************************************************)
(* Operation::wait_util_done.  The future resolves to                      *)
(* Item = Result<serde_json::Value, Status> or to an Error.                *)
(***************************************************************************)
NoStatus == Status(0, "", None)
Out(kind, value, status, code, body) ==
    [kind |-> kind, value |-> value, status |-> status, code |-> code,
     body |-> body]
Pending == Out("Pending", JNull, NoStatus, 0, JNull)
ItemOk(response) == Out("ItemOk", response, NoStatus, 0, JNull)
ItemErr(error) == Out("ItemErr", JNull, error, 0, JNull)
ErrorOther == Out("Other", JNull, NoStatus, 0, JNull)
\* An Error of the wait call passes through and_then unchanged.
ErrorOf(r) == Out(r.kind, JNull, NoStatus, r.code, r.body)

\* The per-call timeout hint of the loop.
WaitTimeout == Some("1s")

\* wait_util_done_match with the error looked at before the response.
wait_util_done_match_error_first(new_operation) ==
    IF new_operation.done = None \/ new_operation.done = Some(FALSE)
    THEN [loop |-> "Continue", out |-> Pending]
    ELSE IF IsSome(new_operation.error)
         THEN [loop |-> "Break", out |-> ItemErr(Unwrap(new_operation.error))]
    ELSE IF IsSome(new_operation.response)
         THEN [loop |-> "Break", out |-> ItemOk(Unwrap(new_operation.response))]
    ELSE [loop |-> "Error", out |-> ErrorOther]

\* wait_util_done_match with the failure of the operation raised as an Error.
wait_util_done_match_failure_raised(new_operation) ==
    IF new_operation.done = None \/ new_operation.done = Some(FALSE)
    THEN [loop |-> "Continue", out |-> Pending]
    ELSE IF IsSome(new_operation.response)
         THEN [loop |-> "Break", out |-> ItemOk(Unwrap(new_operation.response))]
    ELSE [loop |-> "Error", out |-> ErrorOther]

\* wait_util_done_match that waits again when a done Operation has neither
\* a response nor an error.
wait_util_done_match_retry(new_operation) ==
    IF new_operation.done = None \/ new_operation.done = Some(FALSE)
    THEN [loop |-> "Continue", out |-> Pending]
    ELSE IF IsSome(new_operation.response)
         THEN [loop |-> "Break", out |-> ItemOk(Unwrap(new_operation.response))]
    ELSE IF IsSome(new_operation.error)
         THEN [loop |-> "Break", out |-> ItemErr(Unwrap(new_operation.error))]
    ELSE [loop |-> "Continue", out |-> Pending]

\* wait_util_done_match that goes on for done = Some(false) only.
wait_util_done_match_unset_ends(new_operation) ==
    IF new_operation.done = Some(FALSE)
    THEN [loop |-> "Continue", out |-> Pending]
    ELSE IF IsSome(new_operation.response)
         THEN [loop |-> "Break", out |-> ItemOk(Unwrap(new_operation.response))]
    ELSE IF IsSome(new_operation.error)
         THEN [loop |-> "Break", out |-> ItemErr(Unwrap(new_operation.error))]
    ELSE [loop |-> "Error", out |-> ErrorOther]

\* wait_util_done_match that takes a response together with an error for
\* a malformed terminal state.
wait_util_done_match_exactly_one(new_operation) ==
    IF new_operation.done = None \/ new_operation.done = Some(FALSE)
    THEN [loop |-> "Continue", out |-> Pending]
    ELSE IF IsSome(new_operation.response) /\ IsSome(new_operation.error)
         THEN [loop |-> "Error", out |-> ErrorOther]
    ELSE IF IsSome(new_operation.response)
         THEN [loop |-> "Break", out |-> ItemOk(Unwrap(new_operation.response))]
    ELSE IF IsSome(new_operation.error)
         THEN [loop |-> "Break", out |-> ItemErr(Unwrap(new_operation.error))]
    ELSE [loop |-> "Error", out |-> ErrorOther]

\* The match of the closure given to and_then: Loop::Continue,
\* Loop::Break(item) or an Error.
wait_util_done_match(new_operation) ==
    IF new_operation.done = None \/ new_operation.done = Some(FALSE)
    THEN [loop |-> "Continue", out |-> Pending]
    ELSE IF IsSome(new_operation.response)
         THEN [loop |-> "Break", out |-> ItemOk(Unwrap(new_operation.response))]
    ELSE IF IsSome(new_operation.error)
         THEN [loop |-> "Break", out |-> ItemErr(Unwrap(new_operation.error))]
    ELSE [loop |-> "Error", out |-> ErrorOther]

\* wait_util_done_turn that waits again after a transport error.
wait_util_done_turn_retry_transport(r) ==
    IF r.kind = "Ok" THEN wait_util_done_match(Unwrap(r.op))
    ELSE IF r.kind = "HyperError" THEN [loop |-> "Continue", out |-> Pending]
    ELSE [loop |-> "Error", out |-> ErrorOf(r)]

\* wait_util_done_turn that waits again after a remote error.
wait_util_done_turn_retry_remote(r) ==
    IF r.kind = "Ok" THEN wait_util_done_match(Unwrap(r.op))
    ELSE IF r.kind = "ResponseError"
         THEN [loop |-> "Continue", out |-> Pending]
    ELSE [loop |-> "Error", out |-> ErrorOf(r)]

\* One turn of loop_fn on the result r of the wait call.
wait_util_done_turn(r) ==
    IF r.kind = "Ok" THEN wait_util_done_match(Unwrap(r.op))
    ELSE [loop |-> "Error", out |-> ErrorOf(r)]

Inc(n) == IF n < MaxCalls THEN n + 1 ELSE MaxCalls

(***************************************************************************)
(* The inputs: handles, tokens and the replies of the remote service.      *)
(***************************************************************************)
Names == {"projects/p/locations/l/operations/op1",
          "projects/p/locations/l/glossaries/test"}
Tokens == {<<"t", "k">>, <<" ", "t", "k", "\n">>}

V1 == JObj([k \in {"@type"} |-> JStr("type.googleapis.com/Response")])
V2 == JObj(NoFields)
Meta == JObj([k \in {"@type"} |-> JStr("type.googleapis.com/Metadata")])
S1 == JObj([k \in {"code", "message"} |->
              IF k = "code" THEN JNum(5) ELSE JStr("not found")])
S2 == JObj([k \in {"code", "message", "details"} |->
              IF k = "code" THEN JNum(1)
              ELSE IF k = "message" THEN JStr("cancelled")
              ELSE JArr([i \in {"0"} |-> Meta])])
SBad == JObj([k \in {"code"} |-> JNum(5)])

\* The handles a poll is started on: Operations decoded from earlier replies.
Handles ==
    {Operation(n, Meta, None, None, None) : n \in Names}
    \cup {Operation(n, Meta, Some(TRUE), None, Some(V1)) : n \in Names}

\* The JSON object with the members m gives (None: the member is absent).
MkObj(m) ==
    JObj([k \in {x \in DOMAIN m : IsSome(m[x])} |-> Unwrap(m[k])])

OperationDoc(name, metadata, done, error, response) ==
    MkObj([name |-> name, metadata |-> metadata, done |-> done,
           error |-> error, response |-> response])

DoneChoices ==
    {None, Some(JNull), Some(JBool(FALSE)), Some(JBool(TRUE)),
     Some(JStr("true"))}
ErrorChoices == {None, Some(JNull), Some(S1), Some(S2), Some(SBad)}
ResponseChoices == {None, Some(JNull), Some(V1), Some(V2)}
OpName == Some(JStr("projects/p/locations/l/operations/op1"))

OperationDocs ==
    {OperationDoc(OpName, Some(Meta), d, e, r) :
        d \in DoneChoices, e \in ErrorChoices, r \in ResponseChoices}
    \cup {OperationDoc(None, Some(Meta), Some(JBool(TRUE)), None, Some(V1)),
          OperationDoc(OpName, None, Some(JBool(TRUE)), None, Some(V1)),
          OperationDoc(Some(JNum(7)), Some(Meta), Some(JBool(TRUE)), None,
                       Some(V1))}

\* The error payload of the remote service.
ErrDoc ==
    JObj([k \in {"error"} |->
            JObj([j \in {"code", "message"} |->
                    IF j = "code" THEN JNum(404) ELSE JStr("not found")])])

\* The glossary of tests::test_glossaries, and the resource the service
\* keeps for it.
GlossaryName == "projects/p/locations/l/glossaries/test"
Gcs == GcsSource("gs://bucket/test.tsv")
Pair == LanguageCodePair("en", "zh")
GlossaryDoc ==
    JObj([k \in {"name", "inputConfig", "entryCount", "languagePair"} |->
            CASE k = "name" -> JStr(GlossaryName)
              [] k = "inputConfig" ->
                    ser_GlossaryInputConfig(GlossaryInputConfig(Gcs))
              [] k = "entryCount" -> JNum(3)
              [] k = "languagePair" -> ser_LanguageCodePair(Pair)])

\* A page of list_operations.
ListDoc ==
    JObj([k \in {"operations", "nextPageToken"} |->
            IF k = "nextPageToken" THEN JStr("page2")
            ELSE JArr([i \in {"0"} |->
                         OperationDoc(OpName, Some(Meta), Some(JBool(TRUE)),
                                      None, Some(V1))])])

OtherBodies ==
    {NotJson(""), NotJson("<html>"), JsonText(JNull), JsonText(V2),
     JsonText(ErrDoc), JsonText(ListDoc)}
OkBodies ==
    {JsonText(v) : v \in OperationDocs} \cup OtherBodies
    \cup {JsonText(GlossaryDoc)}
ErrBodies ==
    OtherBodies
    \cup {JsonText(OperationDoc(OpName, Some(Meta), Some(JBool(TRUE)),
                                Some(S1), None)),
          JsonText(OperationDoc(OpName, Some(Meta), Some(JBool(TRUE)),
                                None, Some(V1)))}
ErrStatuses == {NOT_FOUND, UNAVAILABLE, 201}

HttpResults ==
    {HttpError}
    \cup {HttpResponse(OK, b) : b \in OkBodies}
    \cup {HttpResponse(s, b) : s \in ErrStatuses, b \in ErrBodies}
    \cup {HttpResponse(204, NotJson(""))}

\* The arguments of list_operations.
Projects == {"p"}
Locations == {"l"}
ListParams ==
    {ListOperationsQueryParams(None, None, None),
     ListOperationsQueryParams(Some(<<"a", " ", "=", "b">>), Some(10),
                               Some(<<"t", "/", "2">>))}

(***************************************************************************)
(* The state machine.                                                      *)
(***************************************************************************)
NoArg == [name |-> "", token |-> <<>>]

\* No value is being encoded.
NoCodec ==
    [phase |-> "none", ty |-> "", value |-> JNull, json |-> NotJson(""),
     back |-> None]

\* Every chain is idle.
ChainsInit ==
    /\ pc = [c \in Chains |-> "idle"]
    /\ fn = [c \in Chains |-> "none"]
    /\ handle = [c \in Chains |-> NoOperation]
    /\ arg = [c \in Chains |-> NoArg]
    /\ req = [c \in Chains |-> NoRequest]
    /\ calls = [c \in Chains |-> 0]
    /\ notDone = [c \in Chains |-> 0]
    /\ last = [c \in Chains |-> NoHttp]
    /\ result = [c \in Chains |-> NoRes]
    /\ outcome = [c \in Chains |-> Pending]
    /\ prior = [c \in Chains |-> None]

Init == ChainsInit /\ codec = NoCodec

\* WaitUtilDone that yields what the handle holds when the handle is done.
WaitUtilDone_self_done(c, self, access_token) ==
    /\ pc[c] = "idle"
    /\ fn' = [fn EXCEPT ![c] = "wait_util_done"]
    /\ handle' = [handle EXCEPT ![c] = self]
    /\ arg' = [arg EXCEPT ![c] = [name |-> self.name, token |-> access_token]]
    /\ notDone' = [notDone EXCEPT ![c] = 0]
    /\ last' = [last EXCEPT ![c] = NoHttp]
    /\ result' = [result EXCEPT ![c] = NoRes]
    /\ IF self.done = Some(TRUE)
       THEN /\ pc' = [pc EXCEPT ![c] = "done"]
            /\ req' = [req EXCEPT ![c] = NoRequest]
            /\ calls' = [calls EXCEPT ![c] = 0]
            /\ outcome' = [outcome EXCEPT ![c] =
                              wait_util_done_match(self).out]
       ELSE /\ pc' = [pc EXCEPT ![c] = "waiting"]
            /\ req' = [req EXCEPT ![c] =
                  wait_operation_req(self.name, access_token, WaitTimeout)]
            /\ calls' = [calls EXCEPT ![c] = 1]
            /\ outcome' = [outcome EXCEPT ![c] = Pending]
    /\ UNCHANGED <<prior, codec>>

\* self.wait_util_done(access_token): the name and the token are copied,
\* and loop_fn makes the first wait call.
WaitUtilDone(c, self, access_token) ==
    /\ pc[c] = "idle"
    /\ pc' = [pc EXCEPT ![c] = "waiting"]
    /\ fn' = [fn EXCEPT ![c] = "wait_util_done"]
    /\ handle' = [handle EXCEPT ![c] = self]
    /\ arg' = [arg EXCEPT ![c] = [name |-> self.name, token |-> access_token]]
    /\ req' = [req EXCEPT ![c] =
                 wait_operation_req(self.name, access_token, WaitTimeout)]
    /\ calls' = [calls EXCEPT ![c] = 1]
    /\ notDone' = [notDone EXCEPT ![c] = 0]
    /\ last' = [last EXCEPT ![c] = NoHttp]
    /\ result' = [result EXCEPT ![c] = NoRes]
    /\ outcome' = [outcome EXCEPT ![c] = Pending]
    /\ UNCHANGED <<prior, codec>>

\* WaitReply that makes the next wait call before it looks at the reply.
WaitReply_call_first(c, http) ==
    /\ pc[c] = "waiting"
    /\ LET r == wait_operation_result(http)
           t == wait_util_done_turn(r)
       IN  /\ last' = [last EXCEPT ![c] = http]
           /\ result' = [result EXCEPT ![c] = r]
           /\ req' = [req EXCEPT ![c] =
                 wait_operation_req(arg[c].name, arg[c].token, WaitTimeout)]
           /\ calls' = [calls EXCEPT ![c] = Inc(calls[c])]
           /\ IF t.loop = "Continue"
              THEN /\ notDone' = [notDone EXCEPT ![c] = Inc(notDone[c])]
                   /\ UNCHANGED <<pc, outcome>>
              ELSE /\ pc' = [pc EXCEPT ![c] = "done"]
                   /\ outcome' = [outcome EXCEPT ![c] = t.out]
                   /\ UNCHANGED notDone
    /\ UNCHANGED <<fn, handle, arg>>
    /\ UNCHANGED <<prior, codec>>

\* WaitReply that waits on the name of the Operation the last call returned.
WaitReply_follow_name(c, http) ==
    /\ pc[c] = "waiting"
    /\ LET r == wait_operation_result(http)
           t == wait_util_done_turn(r)
       IN  /\ last' = [last EXCEPT ![c] = http]
           /\ result' = [result EXCEPT ![c] = r]
           /\ IF t.loop = "Continue"
              THEN /\ req' = [req EXCEPT ![c] =
                         wait_operation_req(Unwrap(r.op).name, arg[c].token,
                                            WaitTimeout)]
                   /\ calls' = [calls EXCEPT ![c] = Inc(calls[c])]
                   /\ notDone' = [notDone EXCEPT ![c] = Inc(notDone[c])]
                   /\ UNCHANGED <<pc, outcome>>
              ELSE /\ pc' = [pc EXCEPT ![c] = "done"]
                   /\ outcome' = [outcome EXCEPT ![c] = t.out]
                   /\ UNCHANGED <<req, calls, notDone>>
    /\ UNCHANGED <<fn, handle, arg>>
    /\ UNCHANGED <<prior, codec>>

\* WaitReply that stores the Operation the call returned into the handle.
WaitReply_update_self(c, http) ==
    /\ pc[c] = "waiting"
    /\ LET r == wait_operation_result(http)
           t == wait_util_done_turn(r)
       IN  /\ last' = [last EXCEPT ![c] = http]
           /\ result' = [result EXCEPT ![c] = r]
           /\ handle' = [handle EXCEPT ![c] =
                            IF r.kind = "Ok" THEN Unwrap(r.op) ELSE @]
           /\ IF t.loop = "Continue"
              THEN /\ req' = [req EXCEPT ![c] =
                         wait_operation_req(arg[c].name, arg[c].token,
                                            WaitTimeout)]
                   /\ calls' = [calls EXCEPT ![c] = Inc(calls[c])]
                   /\ notDone' = [notDone EXCEPT ![c] = Inc(notDone[c])]
                   /\ UNCHANGED <<pc, outcome>>
              ELSE /\ pc' = [pc EXCEPT ![c] = "done"]
                   /\ outcome' = [outcome EXCEPT ![c] = t.out]
                   /\ UNCHANGED <<req, calls, notDone>>
    /\ UNCHANGED <<fn, arg>>
    /\ UNCHANGED <<prior, codec>>

\* WaitReply that keeps the result of the wait call in one place for all
\* the chains.
WaitReply_shared_result(c, http) ==
    /\ pc[c] = "waiting"
    /\ LET r == wait_operation_result(http)
           t == wait_util_done_turn(r)
       IN  /\ last' = [last EXCEPT ![c] = http]
           /\ result' = [d \in Chains |-> r]
           /\ IF t.loop = "Continue"
              THEN /\ req' = [req EXCEPT ![c] =
                         wait_operation_req(arg[c].name, arg[c].token,
                                            WaitTimeout)]
                   /\ calls' = [calls EXCEPT ![c] = Inc(calls[c])]
                   /\ notDone' = [notDone EXCEPT ![c] = Inc(notDone[c])]
                   /\ UNCHANGED <<pc, outcome>>
              ELSE /\ pc' = [pc EXCEPT ![c] = "done"]
                   /\ outcome' = [outcome EXCEPT ![c] = t.out]
                   /\ UNCHANGED <<req, calls, notDone>>
    /\ UNCHANGED <<fn, handle, arg>>
    /\ UNCHANGED <<prior, codec>>

\* The wait call of the poll completes with http: the closure runs, and on
\* Loop::Continue loop_fn makes the next wait call at once.
WaitReply(c, http) ==
    /\ pc[c] = "waiting"
    /\ LET r == wait_operation_result(http)
           t == wait_util_done_turn(r)
       IN  /\ last' = [last EXCEPT ![c] = http]
           /\ result' = [result EXCEPT ![c] = r]
           /\ IF t.loop = "Continue"
              THEN /\ req' = [req EXCEPT ![c] =
                         wait_operation_req(arg[c].name, arg[c].token,
                                            WaitTimeout)]
                   /\ calls' = [calls EXCEPT ![c] = Inc(calls[c])]
                   /\ notDone' = [notDone EXCEPT ![c] = Inc(notDone[c])]
                   /\ UNCHANGED <<pc, outcome>>
              ELSE /\ pc' = [pc EXCEPT ![c] = "done"]
                   /\ outcome' = [outcome EXCEPT ![c] = t.out]
                   /\ UNCHANGED <<req, calls, notDone>>
    /\ UNCHANGED <<fn, handle, arg>>
    /\ UNCHANGED <<prior, codec>>

\* A one-shot call f(name, access_token): the dispatcher sends the request.
Call(c, f, name, access_token) ==
    /\ pc[c] = "idle"
    /\ pc' = [pc EXCEPT ![c] = "calling"]
    /\ fn' = [fn EXCEPT ![c] = f]
    /\ arg' = [arg EXCEPT ![c] = [name |-> name, token |-> access_token]]
    /\ req' = [req EXCEPT ![c] = OneShotReq(f, name, access_token)]
    /\ calls' = [calls EXCEPT ![c] = 1]
    /\ notDone' = [notDone EXCEPT ![c] = 0]
    /\ last' = [last EXCEPT ![c] = NoHttp]
    /\ result' = [result EXCEPT ![c] = NoRes]
    /\ outcome' = [outcome EXCEPT ![c] = Pending]
    /\ UNCHANGED handle
    /\ UNCHANGED <<prior, codec>>

\* list_operations(project_id, location_id, access_token, params): one GET
\* request; the call has no operation name.
ListOperations(c, project_id, location_id, access_token, params) ==
    /\ pc[c] = "idle"
    /\ pc' = [pc EXCEPT ![c] = "calling"]
    /\ fn' = [fn EXCEPT ![c] = "list_operations"]
    /\ arg' = [arg EXCEPT ![c] = [name |-> "", token |-> access_token]]
    /\ req' = [req EXCEPT ![c] =
                  list_operations_req(project_id, location_id, access_token,
                                      params)]
    /\ calls' = [calls EXCEPT ![c] = 1]
    /\ notDone' = [notDone EXCEPT ![c] = 0]
    /\ last' = [last EXCEPT ![c] = NoHttp]
    /\ result' = [result EXCEPT ![c] = NoRes]
    /\ outcome' = [outcome EXCEPT ![c] = Pending]
    /\ UNCHANGED handle
    /\ UNCHANGED <<prior, codec>>

\* CallReply that sends the request again when the call has failed.
CallReply_retry(c, http) ==
    /\ pc[c] = "calling"
    /\ last' = [last EXCEPT ![c] = http]
    /\ result' = [result EXCEPT ![c] = OneShotResult(fn[c], http)]
    /\ IF OneShotResult(fn[c], http).kind = "Ok"
       THEN /\ pc' = [pc EXCEPT ![c] = "done"]
            /\ UNCHANGED calls
       ELSE /\ pc' = [pc EXCEPT ![c] = "calling"]
            /\ calls' = [calls EXCEPT ![c] = Inc(calls[c])]
    /\ UNCHANGED <<fn, handle, arg, req, notDone, outcome>>
    /\ UNCHANGED <<prior, codec>>

\* The one-shot call completes with http: the dispatcher classifies it.
CallReply(c, http) ==
    /\ pc[c] = "calling"
    /\ pc' = [pc EXCEPT ![c] = "done"]
    /\ last' = [last EXCEPT ![c] = http]
    /\ result' = [result EXCEPT ![c] = OneShotResult(fn[c], http)]
    /\ UNCHANGED <<fn, handle, arg, req, calls, notDone, outcome>>
    /\ UNCHANGED <<prior, codec>>

\* The chain takes the result of its activity and is free for the next one;
\* the handle and the token stay with the caller.
Drop(c) ==
    /\ pc[c] = "done"
    /\ pc' = [pc EXCEPT ![c] = "idle"]
    /\ fn' = [fn EXCEPT ![c] = "none"]
    /\ req' = [req EXCEPT ![c] = NoRequest]
    /\ calls' = [calls EXCEPT ![c] = 0]
    /\ notDone' = [notDone EXCEPT ![c] = 0]
    /\ last' = [last EXCEPT ![c] = NoHttp]
    /\ result' = [result EXCEPT ![c] = NoRes]
    /\ outcome' = [outcome EXCEPT ![c] = Pending]
    /\ UNCHANGED <<handle, arg>>
    /\ UNCHANGED <<prior, codec>>

\* One call chain, the reference usage: one activity at a time.
Next ==
    \/ \E self \in Handles, t \in Tokens : WaitUtilDone(1, self, t)
    \/ \E http \in HttpResults : WaitReply(1, http)
    \/ \E f \in OneShot, n \in Names, t \in Tokens : Call(1, f, n, t)
    \/ \E p \in Projects, l \in Locations, t \in Tokens, q \in ListParams :
          ListOperations(1, p, l, t, q)
    \/ \E http \in HttpResults : CallReply(1, http)
    \/ Drop(1)

Spec == Init /\ [][Next]_vars

(***************************************************************************)
(* Polls on one executor.  Every chain runs polls, one after the other;    *)
(* the executor interleaves the steps of the chains in any order.  The     *)
(* replies are one of each kind.                                           *)
(***************************************************************************)
ParUnset ==
    HttpResponse(OK, JsonText(OperationDoc(OpName, Some(Meta), None, None,
                                           None)))
ParNotDone ==
    HttpResponse(OK, JsonText(OperationDoc(OpName, Some(Meta),
                                           Some(JBool(FALSE)), None, None)))
ParSuccess ==
    HttpResponse(OK, JsonText(OperationDoc(OpName, Some(Meta),
                                           Some(JBool(TRUE)), None, Some(V1))))
ParFailure ==
    HttpResponse(OK, JsonText(OperationDoc(OpName, Some(Meta),
                                           Some(JBool(TRUE)), Some(S1), None)))
ParNeither ==
    HttpResponse(OK, JsonText(OperationDoc(OpName, Some(Meta),
                                           Some(JBool(TRUE)), None, None)))
ParRemoteError == HttpResponse(NOT_FOUND, JsonText(ErrDoc))
ParReplies ==
    {HttpError, ParUnset, ParNotDone, ParSuccess, ParFailure, ParNeither,
     ParRemoteError}
ParHandles == {Operation(n, Meta, None, None, None) : n \in Names}

ParNext ==
    \E c \in Chains :
        \/ \E self \in ParHandles, t \in Tokens : WaitUtilDone(c, self, t)
        \/ \E http \in ParReplies : WaitReply(c, http)
        \/ Drop(c)

ParSpec == Init /\ [][ParNext]_vars

(***************************************************************************)
(* Polling again.  When a transport failure has ended a poll, the caller   *)
(* calls wait_util_done once more on the handle it still has, with the     *)
(* token it still has.  The handles are fresh ones and ones of operations  *)
(* that are done already.                                                  *)
(***************************************************************************)
\* PollAgain that goes on where the ended poll stopped.
PollAgain_resume(c) ==
    /\ pc[c] = "done" /\ fn[c] = "wait_util_done"
    /\ result[c].kind = "HyperError"
    /\ prior' = [prior EXCEPT ![c] =
                    Some([calls |-> calls[c], notDone |-> notDone[c]])]
    /\ pc' = [pc EXCEPT ![c] = "waiting"]
    /\ req' = [req EXCEPT ![c] =
                 wait_operation_req(handle[c].name, arg[c].token, WaitTimeout)]
    /\ calls' = [calls EXCEPT ![c] = Inc(calls[c])]
    /\ outcome' = [outcome EXCEPT ![c] = Pending]
    /\ UNCHANGED <<fn, handle, arg, notDone, last, result, codec>>

\* self.wait_util_done(access_token) on the handle and with the token of
\* the poll that ended: a new loop_fn, which makes its first wait call.
PollAgain(c) ==
    /\ pc[c] = "done" /\ fn[c] = "wait_util_done"
    /\ result[c].kind = "HyperError"
    /\ prior' = [prior EXCEPT ![c] =
                    Some([calls |-> calls[c], notDone |-> notDone[c]])]
    /\ pc' = [pc EXCEPT ![c] = "waiting"]
    /\ req' = [req EXCEPT ![c] =
                 wait_operation_req(handle[c].name, arg[c].token, WaitTimeout)]
    /\ calls' = [calls EXCEPT ![c] = 1]
    /\ notDone' = [notDone EXCEPT ![c] = 0]
    /\ last' = [last EXCEPT ![c] = NoHttp]
    /\ result' = [result EXCEPT ![c] = NoRes]
    /\ outcome' = [outcome EXCEPT ![c] = Pending]
    /\ UNCHANGED <<fn, handle, arg, codec>>

AgainNext ==
    \/ \E self \in Handles
                   \cup {Operation(n, Meta, Some(TRUE),
                                   Some(Status(5, "not found", None)), None) :
                            n \in Names},
          t \in Tokens : WaitUtilDone(1, self, t)
    \/ \E http \in ParReplies : WaitReply(1, http)
    \/ PollAgain(1)

AgainSpec == Init /\ [][AgainNext]_vars

(***************************************************************************)
(* Twin polls.  Two polls are started with the same operation name and the *)
(* same token, on handles that may differ in every other field, and the    *)
(* remote service gives the second poll, wait call by wait call, the       *)
(* results it gave the first: the first poll takes a result of any kind    *)
(* when both polls have had equally many, and the second then takes the    *)
(* same one.                                                               *)
(***************************************************************************)
TwinNext ==
    \/ \E self \in Handles \cup {Operation(n, Meta, Some(TRUE), None, Some(V1)) : n \in Names}, t \in Tokens :
            /\ pc[2] = "idle"
            /\ WaitUtilDone(1, self, t)
    \/ \E self \in Handles \cup {Operation(n, Meta, Some(TRUE), None, Some(V1)) : n \in Names} :
            /\ pc[1] = "waiting"
            /\ self.name = arg[1].name
            /\ WaitUtilDone(2, self, arg[1].token)
    \/ \E http \in ParReplies :
            /\ pc[2] = "waiting"
            /\ notDone[1] = notDone[2]
            /\ calls[1] < MaxCalls
            /\ WaitReply(1, http)
    \/ /\ pc[2] = "waiting"
       /\ \/ notDone[2] < notDone[1]
          \/ pc[1] = "done" /\ notDone[2] = notDone[1]
       /\ WaitReply(2, last[1])

TwinSpec == Init /\ [][TwinNext]_vars

(***************************************************************************)
(* Encoding and decoding.  A value of a type that derives Serialize and    *)
(* Deserialize is written by serde_json::to_string, as post_request does   *)
(* with a request body, and the text is read back by serde_json::from_str  *)
(* at the same type.                                                       *)
(***************************************************************************)
Times == {None, Some("2019-07-01T00:00:00Z")}

GlossaryValues ==
    {Glossary(GlossaryName, GlossaryInputConfig(Gcs), c, s, e, p, l) :
        c \in {None, Some(0), Some(3)}, s \in Times, e \in Times,
        p \in {None, Some(Pair)},
        l \in {None, Some(LanguageCodesSet(<<>>)),
               Some(LanguageCodesSet(<<"en", "zh">>))}}

Typed(ty, x) == [ty |-> ty, value |-> x]
SerdeValues ==
    {Typed("Glossary", g) : g \in GlossaryValues}
    \cup {Typed("GlossaryInputConfig", GlossaryInputConfig(Gcs)),
          Typed("GcsSource", Gcs),
          Typed("LanguageCodePair", Pair),
          Typed("LanguageCodesSet", LanguageCodesSet(<<>>)),
          Typed("LanguageCodesSet", LanguageCodesSet(<<"en", "zh">>))}
    \cup {Typed("TranslateTextGlossaryConfig",
                TranslateTextGlossaryConfig(GlossaryName, i)) :
             i \in {None, Some(FALSE), Some(TRUE)}}

SerdeInit ==
    /\ ChainsInit
    /\ codec \in {[phase |-> "value", ty |-> t.ty, value |-> t.value,
                   json |-> NotJson(""), back |-> None] : t \in SerdeValues}

\* serde_json::to_string(&value)
ToJson ==
    /\ codec.phase = "value"
    /\ codec' = [codec EXCEPT !.phase = "encoded",
                              !.json = JsonText(to_json(codec.ty, codec.value))]
    /\ UNCHANGED chain_vars

\* serde_json::from_str(&json) at the type of the value
FromStr ==
    /\ codec.phase = "encoded"
    /\ LET d == from_str(codec.ty, codec.json)
       IN  codec' = [codec EXCEPT !.phase = "decoded",
                                  !.back = IF d.ok THEN Some(d.val) ELSE None]
    /\ UNCHANGED chain_vars

SerdeNext == ToJson \/ FromStr

SerdeSpec == SerdeInit /\ [][SerdeNext]_vars

(***************************************************************************)
(* Vocabulary of the properties.                                           *)
(***************************************************************************)
IsPoll(c) == fn[c] = "wait_util_done"
\* The wait call of chain c returned an Operation (new_operation).
Returned(c) == IsPoll(c) /\ result[c].kind = "Ok"
\* The Operation the last call of chain c returned.
NewOperation(c) == Unwrap(result[c].op)
\* While a counter has not reached MaxCalls it is exact.
Exact(c) == notDone[c] < MaxCalls
ErrorKinds == {"HyperError", "SerdeJsonError", "ResponseError", "Other"}

\* The reply as it came over the wire.
GotResponse(c) == last[c].kind = "response"
Doc(c) == last[c].body.v
HasMember(v, k) == v.t = "obj" /\ k \in DOMAIN v.f
Present(v, k) == HasMember(v, k) /\ v.f[k].t # "null"
IsWaitRequest(r, name) ==
    r.method = "POST" /\ r.uri = <<BaseUrl, name, ":wait">>

(***************************************************************************)
(* C1.  Whenever a wait call returns an Operation with done = Some(true)   *)
(* and response = Some(v), the poll has terminated with the success        *)
(* outcome Ok(v) carrying exactly that v, whether or not the Operation     *)
(* also has an error.                                                      *)
(***************************************************************************)
C1_ResponseWins ==
    \A c \in Chains :
        (/\ Returned(c)
         /\ NewOperation(c).done = Some(TRUE)
         /\ IsSome(NewOperation(c).response))
        => /\ pc[c] = "done"
           /\ outcome[c].kind = "ItemOk"
           /\ outcome[c].value = Unwrap(NewOperation(c).response)

\* A poll that ended in success on an Operation that has both a response
\* and an error.
C1_Witness ==
    \E c \in Chains :
        /\ Returned(c) /\ pc[c] = "done"
        /\ NewOperation(c).done = Some(TRUE)
        /\ NewOperation(c).response = Some(V2)
        /\ IsSome(NewOperation(c).error)
        /\ outcome[c] = ItemOk(V2)

(***************************************************************************)
(* C2.  Whenever a wait call returns an Operation with done = Some(true),  *)
(* response = None and error = Some(s), the poll has terminated and its    *)
(* future yields the item Err(s): a value, not an Error of the call.       *)
(***************************************************************************)
C2_FailureOutcome ==
    \A c \in Chains :
        (/\ Returned(c)
         /\ NewOperation(c).done = Some(TRUE)
         /\ NewOperation(c).response = None
         /\ IsSome(NewOperation(c).error))
        => /\ pc[c] = "done"
           /\ outcome[c].kind = "ItemErr"
           /\ outcome[c].kind \notin ErrorKinds
           /\ outcome[c].status = Unwrap(NewOperation(c).error)

\* A poll that ended with the Status of a cancelled operation, details and
\* all.
C2_Witness ==
    \E c \in Chains :
        /\ Returned(c) /\ pc[c] = "done"
        /\ NewOperation(c).response = None
        /\ outcome[c].kind = "ItemErr"
        /\ outcome[c].status = Status(1, "cancelled", Some(<<Meta>>))

(***************************************************************************)
(* C3.  Whenever a wait call returns an Operation with done = Some(true),  *)
(* response = None and error = None, the poll has ended with Error::Other, *)
(* neither a success nor an operation failure, and it is not retried: no   *)
(* wait call beyond the answered ones has been issued.                     *)
(***************************************************************************)
C3_ProtocolViolation ==
    \A c \in Chains :
        (/\ Returned(c)
         /\ NewOperation(c).done = Some(TRUE)
         /\ NewOperation(c).response = None
         /\ NewOperation(c).error = None)
        => /\ pc[c] = "done"
           /\ outcome[c].kind = "Other"
           /\ outcome[c].kind \notin {"ItemOk", "ItemErr"}
           /\ Exact(c) => calls[c] = notDone[c] + 1

\* A poll that ended in the protocol violation after two not-done replies.
C3_Witness ==
    \E c \in Chains :
        /\ Returned(c) /\ pc[c] = "done"
        /\ NewOperation(c).done = Some(TRUE)
        /\ NewOperation(c).response = None
        /\ NewOperation(c).error = None
        /\ outcome[c].kind = "Other"
        /\ notDone[c] = 2 /\ calls[c] = 3

(***************************************************************************)
(* C4.  Every wait reply with done = None or done = Some(false) makes the  *)
(* poller issue exactly one more wait call and not terminate: after N      *)
(* not-done replies, N + 1 wait calls have been issued and the poll is     *)
(* waiting for the last of them, for every N the counters can hold.        *)
(***************************************************************************)
C4_NotDoneContinues ==
    \A c \in Chains :
        (/\ Returned(c)
         /\ NewOperation(c).done \in {None, Some(FALSE)})
        => /\ pc[c] = "waiting"
           /\ outcome[c] = Pending
           /\ notDone[c] >= 1
           /\ IsWaitRequest(req[c], arg[c].name)
           /\ Exact(c) => calls[c] = notDone[c] + 1

\* Three not-done replies, the last with done absent, and a fourth call
\* under way.
C4_Witness ==
    \E c \in Chains :
        /\ Returned(c) /\ pc[c] = "waiting"
        /\ NewOperation(c).done = None
        /\ ~HasMember(Doc(c), "done")
        /\ notDone[c] = 3 /\ calls[c] = 4

(***************************************************************************)
(* C5.  A poll whose wait calls return k not-done Operations and then one  *)
(* with done = true and a response yields success after exactly k + 1 wait *)
(* calls, and no wait call is issued after the terminal one.               *)
(***************************************************************************)
C5_SuccessAfterKPlusOne ==
    \A c \in Chains :
        (IsPoll(c) /\ pc[c] = "done" /\ outcome[c].kind = "ItemOk"
         /\ Exact(c))
        => /\ calls[c] = notDone[c] + 1
           /\ GotResponse(c) /\ last[c].status = OK
           /\ HasMember(Doc(c), "done") /\ Doc(c).f["done"] = JBool(TRUE)
           /\ Present(Doc(c), "response")
           /\ outcome[c].value = Doc(c).f["response"]

\* The scenario of the specification: three not-done replies, then
\* success at the fourth call.
C5_Witness ==
    \E c \in Chains :
        /\ IsPoll(c) /\ pc[c] = "done" /\ outcome[c].kind = "ItemOk"
        /\ notDone[c] = 3 /\ calls[c] = 4

(***************************************************************************)
(* C6.  A failure of a wait call (a transport error, a decode error of the *)
(* reply, or a structured remote error) aborts the poll at once: the       *)
(* poll's result is that same error, and the failed call is not retried    *)
(* nor followed by another wait call.                                      *)
(***************************************************************************)
C6_WaitFailureAborts ==
    \A c \in Chains :
        (IsPoll(c) /\ result[c].kind \in ErrorKinds)
        => /\ pc[c] = "done"
           /\ outcome[c].kind = result[c].kind
           /\ outcome[c].code = result[c].code
           /\ outcome[c].body = result[c].body
           /\ last[c].kind = "error" => outcome[c].kind = "HyperError"
           /\ (GotResponse(c) /\ ~last[c].body.ok)
                 => outcome[c].kind = "SerdeJsonError"
           /\ (GotResponse(c) /\ last[c].status # OK /\ last[c].body.ok)
                 => outcome[c].kind = "ResponseError"
           /\ Exact(c) => calls[c] = notDone[c] + 1

\* A poll aborted by a transport error at its third wait call.
C6_Witness ==
    \E c \in Chains :
        /\ IsPoll(c) /\ pc[c] = "done"
        /\ last[c].kind = "error"
        /\ outcome[c].kind = "HyperError"
        /\ notDone[c] = 2 /\ calls[c] = 3

(***************************************************************************)
(* C7.  The two failure channels of a poll never mix: a remote error of    *)
(* the wait call itself (a status other than 200 with a JSON body) is the  *)
(* Error::ResponseError of the call, never the item Err(Status); and the   *)
(* item Err(Status) comes only from a reply with status 200 whose          *)
(* Operation is done and carries an error.                                 *)
(***************************************************************************)
C7_ChannelsNeverMix ==
    \A c \in Chains :
        (IsPoll(c) /\ pc[c] = "done")
        => /\ (GotResponse(c) /\ last[c].status # OK /\ last[c].body.ok)
                 => /\ outcome[c].kind = "ResponseError"
                    /\ outcome[c].code = last[c].status
                    /\ outcome[c].status = NoStatus
           /\ outcome[c].kind = "ItemErr"
                 => /\ GotResponse(c) /\ last[c].status = OK
                    /\ last[c].body.ok
                    /\ HasMember(Doc(c), "done")
                    /\ Doc(c).f["done"] = JBool(TRUE)
                    /\ Present(Doc(c), "error")
                    /\ outcome[c].code = 0

\* A wait call answered 503 with the body of a failed terminal Operation:
\* the poll ends in ResponseError.
C7_Witness ==
    \E c \in Chains :
        /\ IsPoll(c) /\ pc[c] = "done"
        /\ GotResponse(c) /\ last[c].status = UNAVAILABLE
        /\ Present(Doc(c), "error")
        /\ outcome[c].kind = "ResponseError"
        /\ outcome[c].code = UNAVAILABLE

(***************************************************************************)
(* What serde accepts, read off the reply itself: the JSON documents that  *)
(* are a Status and an Operation.                                          *)
(***************************************************************************)
WellFormedStatus(v) ==
    /\ HasMember(v, "code") /\ v.f["code"].t = "num"
    /\ HasMember(v, "message") /\ v.f["message"].t = "str"
    /\ Present(v, "details") => v.f["details"].t = "arr"

WellFormedOperation(v) ==
    /\ HasMember(v, "name") /\ v.f["name"].t = "str"
    /\ HasMember(v, "metadata")
    /\ Present(v, "done") => v.f["done"].t = "bool"
    /\ Present(v, "error") => WellFormedStatus(v.f["error"])

WellFormedList(v) ==
    /\ HasMember(v, "operations") /\ v.f["operations"].t = "arr"
    /\ \A k \in DOMAIN v.f["operations"].f :
          WellFormedOperation(v.f["operations"].f[k])
    /\ Present(v, "nextPageToken") => v.f["nextPageToken"].t = "str"

\* The replies that do not end a poll: status 200 with an Operation that is
\* not done.  Every other reply reports done = true or fails the call.
IsNotDoneReply(h) ==
    /\ h.kind = "response" /\ h.status = OK /\ h.body.ok
    /\ WellFormedOperation(h.body.v)
    /\ Present(h.body.v, "done") => h.body.v.f["done"] = JBool(FALSE)
FinalReplies == {h \in HttpResults : ~IsNotDoneReply(h)}

\* Every wait call returns in the end, and the remote service does in the
\* end answer a wait call with done = true or with a failure.
LiveSpec ==
    /\ Init /\ [][Next]_vars
    /\ WF_vars(\E http \in HttpResults : WaitReply(1, http))
    /\ SF_vars(\E http \in FinalReplies : WaitReply(1, http))

(***************************************************************************)
(* C8.  If every wait call returns in the end and the remote service in    *)
(* the end answers a wait call with done = true or with a call failure,    *)
(* a poll that is waiting terminates in the end, with a success, a failure *)
(* or an error; and a poll terminates on such a reply only.                *)
(***************************************************************************)
C8_PollTerminates ==
    /\ \A c \in Chains : (pc[c] = "waiting") ~> (pc[c] = "done")
    /\ [][\A c \in Chains :
            (pc[c] = "waiting" /\ pc'[c] = "done")
            => /\ last'[c] \in FinalReplies
               /\ outcome'[c].kind \in {"ItemOk", "ItemErr"} \cup ErrorKinds
         ]_vars

\* A poll that terminated with the failure of the operation after a
\* not-done reply.
C8_Witness ==
    \E c \in Chains :
        /\ IsPoll(c) /\ pc[c] = "done"
        /\ notDone[c] = 1
        /\ outcome[c].kind = "ItemErr"
        /\ last[c] \in FinalReplies

(***************************************************************************)
(* C9.  For every call through post_request, get_request or                *)
(* delete_request: a reply with a status other than 200 whose body is JSON *)
(* yields Error::ResponseError with exactly that status and exactly the    *)
(* decoded body; one whose body is not JSON yields Error::SerdeJsonError.  *)
(***************************************************************************)
C9_RemoteErrorOrDecodeError ==
    \A c \in Chains :
        (pc[c] = "done" /\ GotResponse(c) /\ last[c].status # OK)
        => IF last[c].body.ok
           THEN /\ result[c].kind = "ResponseError"
                /\ result[c].code = last[c].status
                /\ result[c].body = Doc(c)
           ELSE result[c].kind = "SerdeJsonError"

\* delete_glossary answered 404 with the error payload of the service.
C9_Witness ==
    \E c \in Chains :
        /\ fn[c] = "delete_glossary" /\ pc[c] = "done"
        /\ req[c].method = "DELETE"
        /\ result[c] = ResponseError(NOT_FOUND, ErrDoc)

(***************************************************************************)
(* C10.  For every dispatcher call with a non-empty response type, a reply *)
(* with status 200 is decoded as that type: when the body decodes the call *)
(* yields the decoded value, and when it does not the call yields          *)
(* Error::SerdeJsonError, never a remote error, and is not repeated.       *)
(***************************************************************************)
C10_OkIsDecoded ==
    \A c \in Chains :
        (/\ fn[c] \notin {"none", "delete_operation"}
         /\ GotResponse(c) /\ last[c].status = OK)
        => /\ IF fn[c] = "cancel_operation"
              THEN IF last[c].body.ok /\ Doc(c).t = "null"
                   THEN result[c] = OkRes("Unit", None)
                   ELSE result[c].kind = "SerdeJsonError"
              ELSE IF fn[c] = "list_operations"
              THEN IF last[c].body.ok /\ WellFormedList(Doc(c))
                   THEN /\ result[c].kind = "Ok"
                        /\ result[c].ty = "ListOperationsResponse"
                        /\ Len(Unwrap(result[c].op).operations)
                              = Cardinality(DOMAIN Doc(c).f["operations"].f)
                   ELSE result[c].kind = "SerdeJsonError"
              ELSE IF last[c].body.ok /\ WellFormedOperation(Doc(c))
                   THEN /\ result[c].kind = "Ok"
                        /\ result[c].ty = "Operation"
                        /\ NewOperation(c).name = Doc(c).f["name"].s
                        /\ NewOperation(c).metadata = Doc(c).f["metadata"]
                        /\ NewOperation(c).done =
                              IF Present(Doc(c), "done")
                              THEN Some(Doc(c).f["done"] = JBool(TRUE))
                              ELSE None
                        /\ NewOperation(c).response =
                              IF Present(Doc(c), "response")
                              THEN Some(Doc(c).f["response"]) ELSE None
                        /\ IsSome(NewOperation(c).error)
                              <=> Present(Doc(c), "error")
                   ELSE result[c].kind = "SerdeJsonError"
           /\ result[c].kind # "ResponseError"
           /\ ~IsPoll(c) => calls[c] = 1 /\ pc[c] = "done"

\* get_opertion answered 200 with a body that is no Operation: a decode
\* error.
C10_Witness ==
    \E c \in Chains :
        /\ fn[c] = "get_opertion" /\ pc[c] = "done"
        /\ GotResponse(c) /\ last[c].status = OK
        /\ last[c].body.ok /\ ~WellFormedOperation(Doc(c))
        /\ result[c].kind = "SerdeJsonError"

(***************************************************************************)
(* C11.  The calls that expect no response body, cancel_operation and      *)
(* delete_operation, skip decoding: on a reply with status 200 each of     *)
(* them succeeds whatever the body is.                                     *)
(***************************************************************************)
C11_NoBodyCallsSucceed ==
    \A c \in Chains :
        (/\ fn[c] \in {"cancel_operation", "delete_operation"}
         /\ pc[c] = "done"
         /\ GotResponse(c) /\ last[c].status = OK)
        => result[c].kind = "Ok"

(***************************************************************************)
(* C12.  delete_glossary on a name that does not exist (status 404 with a  *)
(* JSON error body) returns Error::ResponseError with the code NOT_FOUND,  *)
(* which the caller matches to go on to create_glossary; no Operation is   *)
(* returned and the delete made its one DELETE request, no wait call.      *)
(***************************************************************************)
C12_DeleteMissingGlossary ==
    \A c \in Chains :
        (/\ fn[c] = "delete_glossary" /\ pc[c] = "done"
         /\ GotResponse(c) /\ last[c].status = 404 /\ last[c].body.ok)
        => /\ result[c].kind = "ResponseError"
           /\ result[c].code = NOT_FOUND
           /\ result[c].op = None
           /\ test_glossaries_then(result[c]) = "create_glossary"
           /\ calls[c] = 1
           /\ req[c].method = "DELETE"
           /\ ~IsWaitRequest(req[c], arg[c].name)

\* delete_glossary of the test glossary answered 404 with the error payload.
C12_Witness ==
    \E c \in Chains :
        /\ fn[c] = "delete_glossary" /\ pc[c] = "done"
        /\ arg[c].name = "projects/p/locations/l/glossaries/test"
        /\ GotResponse(c) /\ last[c].status = 404
        /\ last[c].body = JsonText(ErrDoc)
        /\ result[c].code = 404
        /\ test_glossaries_then(result[c]) = "create_glossary"

(***************************************************************************)
(* C13.  Whenever the poller observes an Operation with done = true, it    *)
(* yields a success or a failure outcome only if exactly one of response   *)
(* and error is present; every other case, neither present or both         *)
(* present, is treated as a protocol violation.                            *)
(***************************************************************************)
C13_ExactlyOneOrViolation ==
    \A c \in Chains :
        (Returned(c) /\ NewOperation(c).done = Some(TRUE))
        => LET one == IsSome(NewOperation(c).response)
                          # IsSome(NewOperation(c).error)
           IN  /\ outcome[c].kind \in {"ItemOk", "ItemErr"} => one
               /\ ~one => outcome[c].kind = "Other"

(***************************************************************************)
(* C13, amended.  Whenever the poller observes an Operation with           *)
(* done = true, it yields a success or a failure outcome exactly when at   *)
(* least one of response and error is present: success with the response   *)
(* whenever the response is present, also next to an error, and failure    *)
(* with the error when only the error is present.  Only the case of        *)
(* neither present is treated as a protocol violation.                     *)
(***************************************************************************)
C13_AtLeastOneOrViolation ==
    \A c \in Chains :
        (Returned(c) /\ NewOperation(c).done = Some(TRUE))
        => LET response == NewOperation(c).response
               error    == NewOperation(c).error
           IN  /\ pc[c] = "done"
               /\ outcome[c].kind \in {"ItemOk", "ItemErr", "Other"}
               /\ outcome[c].kind \in {"ItemOk", "ItemErr"}
                      <=> (IsSome(response) \/ IsSome(error))
               /\ outcome[c].kind = "ItemOk" <=> IsSome(response)
               /\ IsSome(response) => outcome[c].value = Unwrap(response)
               /\ outcome[c].kind = "ItemErr"
                      => outcome[c].status = Unwrap(error)

\* The first not-done reply was followed by a done Operation that has a
\* response and an error, and the poll ended in success.
C13_Witness ==
    \E c \in Chains :
        /\ Returned(c) /\ pc[c] = "done"
        /\ NewOperation(c).done = Some(TRUE)
        /\ IsSome(NewOperation(c).response)
        /\ IsSome(NewOperation(c).error)
        /\ outcome[c].kind = "ItemOk"
        /\ notDone[c] = 1 /\ calls[c] = 2

(***************************************************************************)
(* C14.  Each dispatcher call issues exactly one HTTP request per          *)
(* invocation, whatever the outcome.  A one-shot call (cancel_operation,   *)
(* delete_operation, get_opertion, list_operations, delete_glossary,       *)
(* get_glossary) has issued one request while it is under way and when it  *)
(* has ended, be it with a value, a transport error, a decode error or a   *)
(* remote error; and a poll that a failed wait call has ended made no      *)
(* request after the failed one.                                           *)
(***************************************************************************)
C14_OneRequestPerCall ==
    \A c \in Chains :
        /\ fn[c] \in OneShot \cup {"list_operations"}
           => /\ pc[c] \in {"calling", "done"}
              /\ calls[c] = 1
              /\ req[c].method \in {"POST", "GET", "DELETE"}
              /\ pc[c] = "done"
                 => result[c].kind \in {"Ok", "HyperError", "SerdeJsonError",
                                        "ResponseError"}
        /\ (/\ IsPoll(c) /\ pc[c] = "done" /\ Exact(c)
            /\ result[c].kind \in {"HyperError", "SerdeJsonError",
                                   "ResponseError"})
           => calls[c] = notDone[c] + 1

\* list_operations answered 503 with an error payload: one GET request,
\* with the query parameters, and a remote error.
C14_Witness ==
    \E c \in Chains :
        /\ fn[c] = "list_operations" /\ pc[c] = "done"
        /\ last[c] = HttpResponse(UNAVAILABLE, JsonText(ErrDoc))
        /\ result[c] = ResponseError(UNAVAILABLE, ErrDoc)
        /\ calls[c] = 1
        /\ req[c].method = "GET"
        /\ req[c].uri = <<BaseUrl, "projects/", "p", "/locations/", "l",
                          "/operations", "?", "filter=", "a", "+", "%3D",
                          "b", "&", "pageSize=", "1", "0", "&", "pageToken=",
                          "t", "%2F", "2">>

(***************************************************************************)
(* C15.  For the types that are both encodable and decodable, encoding a   *)
(* value to JSON and decoding it back reproduces the original value for    *)
(* every combination of optional fields, and a None optional field is      *)
(* absent from the encoded JSON rather than written as null.               *)
(***************************************************************************)
\* The optional fields of a type, each with its key in the JSON object.
OptionalFields(ty) ==
    CASE ty = "Glossary" ->
            {<<"entry_count", "entryCount">>, <<"submit_time", "submitTime">>,
             <<"end_time", "endTime">>, <<"language_pair", "languagePair">>,
             <<"language_codes_set", "languageCodesSet">>}
      [] ty = "TranslateTextGlossaryConfig" ->
            {<<"ignore_case", "ignoreCase">>}
      [] OTHER -> {}

RoundTrips == IsSome(codec.back) /\ Unwrap(codec.back) = codec.value
NoneIsAbsent ==
    \A p \in OptionalFields(codec.ty) :
        ~IsSome(codec.value[p[1]]) => ~HasMember(codec.json.v, p[2])

C15_RoundTripNoneAbsent ==
    /\ codec.phase \in {"encoded", "decoded"} => NoneIsAbsent
    /\ codec.phase = "decoded" => RoundTrips

\* The glossary that test_glossaries creates, encoded and decoded: the
\* value comes back, and its text has "entryCount": null.
C15_Witness ==
    /\ codec.phase = "decoded"
    /\ codec.ty = "Glossary"
    /\ codec.value = Glossary_new(GlossaryName, GlossaryInputConfig(Gcs), Pair)
    /\ RoundTrips
    /\ HasMember(codec.json.v, "entryCount")
    /\ codec.json.v.f["entryCount"] = JNull

(***************************************************************************)
(* C16.  Every request the dispatcher sends, for each of the three methods *)
(* POST, GET and DELETE, carries both the header                           *)
(* Content-Type: application/json and the header                           *)
(* Authorization: Bearer <token>, where <token> is the caller's token with *)
(* surrounding whitespace removed.                                         *)
(***************************************************************************)
\* The tokens of the model are "tk", bare or with whitespace around it.
TrimmedToken == <<"t", "k">>

C16_HeadersOnEveryRequest ==
    \A c \in Chains :
        req[c] # NoRequest
        => /\ req[c].method \in {"POST", "GET", "DELETE"}
           /\ req[c].content_type = Some("application/json")
           /\ req[c].authorization = <<"Bearer ", "t", "k">>

\* delete_glossary called with a token that ends in a newline: the DELETE
\* request has the trimmed token and no Content-Type.
C16_Witness ==
    \E c \in Chains :
        /\ fn[c] = "delete_glossary" /\ pc[c] = "calling"
        /\ arg[c].token = <<" ", "t", "k", "\n">>
        /\ req[c].method = "DELETE"
        /\ req[c].authorization = <<"Bearer ">> \o TrimmedToken
        /\ req[c].content_type = None

(***************************************************************************)
(* C17.  delete_operation issues a DELETE on the operation resource        *)
(* itself, .../{operation_name}, and does not cancel the operation;        *)
(* cancel_operation issues a POST on .../{operation_name}:cancel; for the  *)
(* same operation name the two calls target different URLs.                *)
(***************************************************************************)
C17_DeleteIsNotCancel ==
    \A c \in Chains :
        /\ fn[c] = "cancel_operation"
           => /\ req[c].method = "POST"
              /\ req[c].uri = <<BaseUrl, arg[c].name, ":cancel">>
        /\ fn[c] = "delete_operation"
           => /\ req[c].method = "DELETE"
              /\ req[c].uri = <<BaseUrl, arg[c].name>>
              /\ req[c].uri
                    # cancel_operation_req(arg[c].name, arg[c].token).uri

\* delete_operation under way on op1: a DELETE on the cancel URL of op1.
C17_Witness ==
    \E c \in Chains :
        /\ fn[c] = "delete_operation" /\ pc[c] = "calling"
        /\ arg[c].name = "projects/p/locations/l/operations/op1"
        /\ req[c].method = "DELETE"
        /\ req[c].uri = <<BaseUrl, "projects/p/locations/l/operations/op1",
                          ":cancel">>

(***************************************************************************)
(* C18.  Across all iterations of one poll, every wait call is a POST to   *)
(* .../{name}:wait with the name of the handle the poll was started on,    *)
(* the token given at the start and the timeout hint "1s"; nothing from a  *)
(* previous wait response, a different name in a returned Operation        *)
(* included, changes the next wait call.                                   *)
(***************************************************************************)
\* The wait call of a poll on the handle self.
TheWaitCall(self) ==
    [method |-> "POST",
     uri |-> <<BaseUrl, self.name, ":wait">>,
     content_type |-> Some("application/json"),
     authorization |-> <<"Bearer ">> \o TrimmedToken,
     body |-> Some(JObj([k \in {"timeout"} |-> JStr("1s")]))]

C18_WaitCallOfHandle ==
    \A c \in Chains : IsPoll(c) => req[c] = TheWaitCall(handle[c])
C18_WaitCallUnchanged ==
    \A c \in Chains :
        (IsPoll(c) /\ pc[c] = "waiting")
        => /\ req'[c] = req[c]
           /\ arg'[c] = arg[c]

C18_SameWaitCall == []C18_WaitCallOfHandle /\ [][C18_WaitCallUnchanged]_vars

\* A poll on the glossary handle whose third wait call is under way after
\* two replies that name another operation.
C18_Witness ==
    \E c \in Chains :
        /\ Returned(c) /\ pc[c] = "waiting"
        /\ handle[c].name = "projects/p/locations/l/glossaries/test"
        /\ NewOperation(c).name = "projects/p/locations/l/operations/op1"
        /\ notDone[c] = 2 /\ calls[c] = 3
        /\ arg[c].token = <<" ", "t", "k", "\n">>
        /\ req[c].uri = <<BaseUrl, "projects/p/locations/l/glossaries/test",
                          ":wait">>

(***************************************************************************)
(* C19.  A poll never mutates the Operation handle it was started on:      *)
(* through every iteration and whatever the outcome, the handle's name,    *)
(* metadata, done, error and response fields keep the values they had      *)
(* before the poll.                                                        *)
(***************************************************************************)
C19_HandleKept ==
    \A c \in Chains :
        IsPoll(c)
        => /\ handle'[c].name = handle[c].name
           /\ handle'[c].metadata = handle[c].metadata
           /\ handle'[c].done = handle[c].done
           /\ handle'[c].error = handle[c].error
           /\ handle'[c].response = handle[c].response

C19_HandleNeverMutated == [][C19_HandleKept]_vars

\* A poll on a handle without done ended in failure after a not-done
\* reply: the handle still has no done and no error.
C19_Witness ==
    \E c \in Chains :
        /\ Returned(c) /\ pc[c] = "done"
        /\ notDone[c] >= 1
        /\ NewOperation(c).done = Some(TRUE)
        /\ IsSome(NewOperation(c).error)
        /\ outcome[c].kind = "ItemErr"
        /\ handle[c] = Operation("projects/p/locations/l/glossaries/test",
                                 Meta, None, None, None)

(***************************************************************************)
(* C20.  Independent call chains share no mutable local state: when polls  *)
(* (on different operations, or on the same operation) run interleaved on  *)
(* one executor, the outcome and the number of wait calls of each poll     *)
(* depend only on the responses to its own wait calls, under every         *)
(* interleaving: each poll has made one wait call more than it has got     *)
(* not-done replies, its outcome is the one its own last reply stands for, *)
(* and a step of one chain changes nothing of any other chain.             *)
(***************************************************************************)
\* All that a chain holds.
ChainState(c) ==
    <<pc[c], fn[c], handle[c], arg[c], req[c], calls[c], notDone[c], last[c],
      result[c], outcome[c]>>

\* What a poll yields when the reply h is the last of its wait calls.
OutcomeOf(h) ==
    CASE h = HttpError -> Out("HyperError", JNull, NoStatus, 0, JNull)
      [] h = ParSuccess -> ItemOk(V1)
      [] h = ParFailure -> ItemErr(Status(5, "not found", None))
      [] h = ParNeither -> ErrorOther
      [] h = ParRemoteError -> Out("ResponseError", JNull, NoStatus, 404, ErrDoc)

C20_OwnRepliesDecide ==
    \A c \in Chains :
        IsPoll(c)
        => /\ Exact(c) => calls[c] = notDone[c] + 1
           /\ pc[c] = "waiting"
              => /\ outcome[c] = Pending
                 /\ last[c] \in {NoHttp, ParUnset, ParNotDone}
                 /\ last[c] = NoHttp <=> notDone[c] = 0
           /\ pc[c] = "done"
              => /\ last[c] \in ParReplies \ {ParUnset, ParNotDone}
                 /\ outcome[c] = OutcomeOf(last[c])

C20_OneChainPerStep ==
    \A c, d \in Chains :
        (c # d /\ ChainState(c)' # ChainState(c))
        => ChainState(d)' = ChainState(d)

C20_ChainsIndependent ==
    []C20_OwnRepliesDecide /\ [][C20_OneChainPerStep]_vars

\* Two polls on the same operation: the second has ended in failure after
\* one not-done reply while the first, after two, is waiting for its third
\* wait call.
C20_Witness ==
    /\ IsPoll(1) /\ IsPoll(2)
    /\ handle[1] = handle[2]
    /\ pc[1] = "waiting" /\ notDone[1] = 2 /\ calls[1] = 3
    /\ pc[2] = "done" /\ notDone[2] = 1 /\ calls[2] = 2
    /\ last[2] = ParFailure
    /\ outcome[2].kind = "ItemErr"
    /\ outcome[1] = Pending

(***************************************************************************)
(* C21.  No partial result is cached across polls: after a transport       *)
(* failure has ended a poll, a new poll started on the same handle begins  *)
(* from scratch (one wait call, no reply, no result, nothing yielded),     *)
(* makes its wait calls on the same operation name, and its outcome is the *)
(* one the replies to its own wait calls stand for, whatever the poll      *)
(* before it has seen.                                                     *)
(***************************************************************************)
C21_NewPollOwnReplies ==
    \A c \in Chains :
        (IsSome(prior[c]) /\ IsPoll(c))
        => /\ req[c] = TheWaitCall(handle[c])
           /\ Exact(c) => calls[c] = notDone[c] + 1
           /\ pc[c] = "waiting"
              => /\ outcome[c] = Pending
                 /\ last[c] \in {NoHttp, ParUnset, ParNotDone}
                 /\ last[c] = NoHttp <=> (notDone[c] = 0 /\ result[c] = NoRes)
           /\ pc[c] = "done" => outcome[c] = OutcomeOf(last[c])

C21_NewPollFromScratch ==
    \A c \in Chains :
        (pc[c] = "done" /\ pc'[c] = "waiting")
        => /\ outcome[c].kind = "HyperError"
           /\ handle'[c] = handle[c] /\ arg'[c] = arg[c]
           /\ req'[c] = TheWaitCall(handle[c])
           /\ calls'[c] = 1 /\ notDone'[c] = 0
           /\ last'[c] = NoHttp /\ result'[c] = NoRes
           /\ outcome'[c] = Pending

C21_NothingCarriedOver ==
    []C21_NewPollOwnReplies /\ [][C21_NewPollFromScratch]_vars

\* A transport failure ended the poll on its third wait call; the new poll
\* on the same handle has ended in success on its first.
C21_Witness ==
    \E c \in Chains :
        /\ IsPoll(c) /\ pc[c] = "done"
        /\ prior[c] = Some([calls |-> 3, notDone |-> 2])
        /\ handle[c].name = "projects/p/locations/l/glossaries/test"
        /\ calls[c] = 1 /\ notDone[c] = 0
        /\ last[c] = ParSuccess
        /\ outcome[c] = ItemOk(V1)

(***************************************************************************)
(* C22.  get_glossary, given a status 200 response whose body is a         *)
(* well-formed Glossary resource (name and inputConfig present, no         *)
(* Operation fields such as metadata), succeeds and returns that glossary  *)
(* rather than a decode error.                                             *)
(***************************************************************************)
C22_GetGlossaryReturnsGlossary ==
    \A c \in Chains :
        (/\ fn[c] = "get_glossary" /\ pc[c] = "done"
         /\ GotResponse(c) /\ last[c].status = OK /\ last[c].body.ok
         /\ de_Glossary(Doc(c)).ok
         /\ ~HasMember(Doc(c), "metadata"))
        => /\ result[c].kind = "Ok"
           /\ result[c].op = Some(de_Glossary(Doc(c)).val)

\* get_glossary of the test glossary answered 200 with the glossary: a
\* decode error.
C22_Witness ==
    \E c \in Chains :
        /\ fn[c] = "get_glossary" /\ pc[c] = "done"
        /\ arg[c].name = GlossaryName
        /\ last[c] = HttpResponse(OK, JsonText(GlossaryDoc))
        /\ de_Glossary(GlossaryDoc).val.name = GlossaryName
        /\ result[c] = SerdeJsonError

(***************************************************************************)
(* C23.  wait_util_done never consults the done, error or response fields  *)
(* of the handle it is called on: even on a handle that has                *)
(* done = Some(true) with a response or an error, the poll makes at least  *)
(* one wait call, yields nothing before a reply has come, and its outcome  *)
(* is taken from the reply to a wait call only.                            *)
(***************************************************************************)
C23_DoneHandleStillWaits ==
    \A c \in Chains :
        (IsPoll(c) /\ handle[c].done = Some(TRUE))
        => /\ calls[c] >= 1
           /\ IsWaitRequest(req[c], handle[c].name)
           /\ last[c] = NoHttp => (pc[c] = "waiting" /\ outcome[c] = Pending)
           /\ pc[c] = "done"
              => /\ last[c] \in ParReplies
                 /\ outcome[c] = OutcomeOf(last[c])

\* A poll on a handle that is done with a response has ended, on its first
\* wait call, with the error of the Operation that call returned.
C23_Witness ==
    \E c \in Chains :
        /\ IsPoll(c) /\ pc[c] = "done"
        /\ handle[c].done = Some(TRUE)
        /\ handle[c].response = Some(V1)
        /\ calls[c] = 1
        /\ last[c] = ParFailure
        /\ outcome[c] = ItemErr(Status(5, "not found", None))

(***************************************************************************)
(* C24.  The dispatcher classifies as success only the status 200: every   *)
(* other status, other 2xx statuses such as 201 or 204 included, never     *)
(* yields a success value; it yields Error::ResponseError when the body    *)
(* decodes as JSON and Error::SerdeJsonError when it does not (an empty    *)
(* 204 body, for one).                                                     *)
(***************************************************************************)
C24_Only200Succeeds ==
    \A c \in Chains :
        (fn[c] # "none" /\ GotResponse(c))
        => /\ result[c].kind = "Ok" => last[c].status = 200
           /\ last[c].status # 200
              => /\ result[c].op = None
                 /\ result[c] = IF last[c].body.ok
                                THEN ResponseError(last[c].status, Doc(c))
                                ELSE SerdeJsonError
                 /\ pc[c] = "done"
                 /\ IsPoll(c) => outcome[c].kind = result[c].kind

\* get_opertion answered 204 with an empty body: a decode error.
C24_Witness ==
    \E c \in Chains :
        /\ fn[c] = "get_opertion" /\ pc[c] = "done"
        /\ last[c] = HttpResponse(204, NotJson(""))
        /\ result[c] = SerdeJsonError

(***************************************************************************)
(* C25.  The empty response type skips decoding only on status 200: a call *)
(* with the empty response type (delete_operation) that receives another   *)
(* status never succeeds, and yields Error::ResponseError or               *)
(* Error::SerdeJsonError according to whether the error body decodes as    *)
(* JSON.                                                                   *)
(***************************************************************************)
C25_EmptySkipsOn200Only ==
    \A c \in Chains :
        (fn[c] = "delete_operation" /\ pc[c] = "done" /\ GotResponse(c))
        => IF last[c].status = OK
           THEN result[c] = OkRes("Unit", None)
           ELSE /\ result[c].kind \in {"ResponseError", "SerdeJsonError"}
                /\ result[c].kind = "ResponseError" <=> last[c].body.ok
                /\ last[c].body.ok
                   => (result[c].code = last[c].status
                       /\ result[c].body = Doc(c))

\* delete_operation answered 503 with an HTML page: a decode error.
C25_Witness ==
    \E c \in Chains :
        /\ fn[c] = "delete_operation" /\ pc[c] = "done"
        /\ last[c] = HttpResponse(UNAVAILABLE, NotJson("<html>"))
        /\ result[c].kind = "SerdeJsonError"

(***************************************************************************)
(* C26.  wait_util_done is deterministic in the answers of the remote      *)
(* service: two polls started with the same operation name and token that  *)
(* have received the same sequence of wait-call results (status and body,  *)
(* or transport error) have made the same number of wait calls, have the   *)
(* same request out or none, and have both ended, with the same outcome,   *)
(* or are both waiting, whatever else their handles hold.                  *)
(***************************************************************************)
\* The number of wait-call results a poll has taken.
Received(c) ==
    IF last[c] = NoHttp THEN 0
    ELSE notDone[c] + (IF pc[c] = "done" THEN 1 ELSE 0)

C26_SameAnswersSameOutcome ==
    (/\ IsPoll(1) /\ IsPoll(2)
     /\ pc[1] # "idle" /\ pc[2] # "idle"
     /\ arg[1] = arg[2]
     /\ Received(1) = Received(2)
     /\ last[1] = last[2])
    => /\ calls[1] = calls[2]
       /\ pc[1] = pc[2]
       /\ outcome[1] = outcome[2]
       /\ req[1] = req[2]
       /\ result[1] = result[2]

\* Two polls on the same operation with the same token, the first on a
\* fresh handle and the second on a handle that is done with a response:
\* after two not-done replies and a failure both have ended, on their third
\* wait call, with the error of the Operation.
C26_Witness ==
    /\ IsPoll(1) /\ IsPoll(2)
    /\ pc[1] = "done" /\ pc[2] = "done"
    /\ arg[1] = arg[2]
    /\ handle[1].done = None
    /\ handle[2].done = Some(TRUE) /\ handle[2].response = Some(V1)
    /\ Received(1) = 3 /\ Received(2) = 3
    /\ last[1] = ParFailure /\ last[2] = ParFailure
    /\ calls[1] = 3 /\ calls[2] = 3
    /\ outcome[2] = ItemErr(Status(5, "not found", None))

=============================================================================
